---- MODULE Spec2Model ----
(***************************************************************************)
(* A model of the blog platform of blog_api/database.py (the in-memory     *)
(* Store, class BlogDatabase) and blog_api/services.py (the orchestration  *)
(* layer: UserService, TagService, BlogPostService, CommentService).       *)
(*                                                                         *)
(* The specifications share the state of the Store:                        *)
(*   SpecUsers, Spec, SpecCreate, SpecPosts, SpecLookup, SpecLists,        *)
(*   SpecComments, SpecStats, SpecTags                                     *)
(*              the orchestration operations run one at a time, each       *)
(*              specification with the requests of the operations it is    *)
(*              about;                                                     *)
(*   SpecStore, SpecCopies                                                 *)
(*              the Store's own operations run one at a time, update_post  *)
(*              receiving an arbitrary mapping, and the caller keeps the   *)
(*              records it passed in or got back;                          *)
(*   SpecConcUsers, SpecConc, SpecViews, SpecIds, SpecScan, SpecLive,      *)
(*   SpecRefs, SpecGet                                                     *)
(*              several callers run orchestration operations concurrently, *)
(*              each operation split at the places where the code takes or *)
(*              releases a lock or reads a collection without one;         *)
(*              SpecLive adds that a caller who can go on infinitely often *)
(*              does go on;                                                *)
(*   SpecFiles  the operations of MiniFileManager (mini_file.py) run one   *)
(*              at a time on the files of its base directory.              *)
(*                                                                         *)
(* Fields that are only stored and handed back (email, full_name, a        *)
(* user's created_at) are left out of the records.  datetime.now() is the  *)
(* variable now, a clock that never runs backwards and may stand still     *)
(* between two operations (two records may carry the same timestamp).  A   *)
(* title, content or query is one value where only its identity matters,   *)
(* and the sequence of its characters in SpecLists; a tag name and the     *)
(* content of a file are sequences of characters throughout.               *)
(***************************************************************************)
EXTENDS Integers, Sequences, FiniteSets, TLC

\* ---------------------------------------------------------------- bounds

\* The user, tag, post and comment counters stop at these values.
MaxUsers == 4
MaxTags == 4
MaxPosts == 2
MaxComments == 2
\* The clock stops at MaxTime; view counts are raised up to MaxViews.
MaxTime == 2
MaxViews == 2
\* SpecPosts, where posts take every title, content and tag list, creates
\* this many posts.
MaxFieldPosts == 1
\* The generated tag names have up to this many characters.
MaxNameLen == 3
\* The contents of a file have up to this many characters.
MaxTextLen == 2
\* A caller appends to a tag list up to this length.
MaxListLen == 2
\* The concurrent callers of SpecConc and SpecConcUsers.
NumThreads == 2

\* ---------------------------------------------------------------- values

\* Python's None for an optional value, and a value that is present.
None == <<>>
Some(v) == <<v>>
Opt(S) == {None} \cup {Some(x) : x \in S}

\* A dict with key k set to v, and with key k deleted.
Put(f, k, v) == [i \in (DOMAIN f) \cup {k} |-> IF i = k THEN v ELSE f[i]]
Del(f, k) == [i \in (DOMAIN f) \ {k} |-> f[i]]

\* The ids callers pass: every id a counter can reach and one it never reaches.
UserIds == 1..(MaxUsers + 1)
TagIds == 1..(MaxTags + 1)
PostIds == 1..(MaxPosts + 1)
CommentIds == 1..(MaxComments + 1)

Usernames == {"admin", "alice", "bob", "Admin", "carol"}
\* A name is the sequence of its characters.
TagNames == {<<"G", "o">>, <<"R", "u", "s", "t">>}
Titles == {"T1", "T2"}
Contents == {"X1", "X2"}
CommentTexts == {"Great post!"}
\* Tag-id lists of a request: empty, stored ids, a list whose second id is
\* stored only once a fourth tag is created, and a list whose first id is
\* never stored.
TagLists == {<<>>, <<2, 1>>, <<1, 4>>, <<MaxTags + 1, 1>>}
\* Author ids of a request: the sample users, the first user created after
\* them (stored only once created) and an id that is never stored.
AuthorIds == {1, 2, 3, MaxUsers + 1}

\* UserCreate, TagCreate, BlogPostCreate, BlogPostUpdate and CommentCreate of
\* models.py.  A BlogPostCreate may leave published out.
UserCreate == [username : Usernames]
TagCreate == [name : TagNames]
BlogPostCreate ==
    [title : Titles, content : Contents, author_id : AuthorIds,
     published : Opt(BOOLEAN), tags : TagLists]
BlogPostUpdate ==
    [title : Opt(Titles), content : Opt(Contents), published : Opt(BOOLEAN),
     tags : Opt(TagLists)]
CommentCreate ==
    [post_id : PostIds, author_id : AuthorIds, content : CommentTexts]

\* ----------------------------------------------------------------- state

VARIABLES
    users, user_counter,        \* BlogDatabase.users, .user_counter
    tags, tag_counter,          \* BlogDatabase.tags, .tag_counter
    posts, post_counter,        \* BlogDatabase.posts, .post_counter
    comments, comment_counter,  \* BlogDatabase.comments, .comment_counter
    now,                        \* the value datetime.now() returns
    ret,                        \* what the last call returned or raised
    th,                         \* each concurrent caller's place in its call
    locks,                      \* user_lock, tag_lock, post_lock, comment_lock
    incs,                       \* per post, the increments that returned True
    cascade_due,                \* per removed post, the comments it then had
    issued,                     \* per kind, the ids entities were stored under
    held,                       \* the posts whose tag list a Store caller holds
    files                       \* MiniFileManager: the files of base_dir

store == <<users, user_counter, tags, tag_counter, posts, post_counter,
           comments, comment_counter>>
conc == <<th, locks, incs, cascade_due>>
vars == <<users, user_counter, tags, tag_counter, posts, post_counter,
          comments, comment_counter, now, ret, th, locks, incs, cascade_due,
          issued, held, files>>

\* The concurrent callers; a caller that is in no call; a lock nobody holds.
Threads == 1..NumThreads
Idle == [pc |-> "idle"]
Free == 0

\* Every step records the ids under which it stores new entities.
RecordIssued ==
    issued' = [user |-> issued.user \cup ((DOMAIN users') \ DOMAIN users),
               tag |-> issued.tag \cup ((DOMAIN tags') \ DOMAIN tags),
               post |-> issued.post \cup ((DOMAIN posts') \ DOMAIN posts),
               comment |-> issued.comment
                              \cup ((DOMAIN comments') \ DOMAIN comments)]

\* What a call returned or raised: the operation, and "ok" for a returned
\* record, "None", "True" or "False" for those values, or the ValueError's
\* message.
Ret(op, status) == [op |-> op, status |-> status]

\* ------------------------------------------------------ Store: users, tags

\* The record create_user builds at time t (email and full_name left out).
NewUser(id, user_data, t) ==
    [id |-> id, username |-> user_data.username, created_at |-> t,
     is_active |-> TRUE]

\* get_user_by_username: the first user, in insertion order, with that name.
UsersNamed(us, username) == {i \in DOMAIN us : us[i].username = username}
\* A lookup that gives up after the first stored user.
get_user_by_username_first_only(us, username) ==
    IF us = <<>> THEN None
    ELSE LET i == CHOOSE j \in DOMAIN us : \A k \in DOMAIN us : j <= k
         IN IF us[i].username = username THEN Some(us[i]) ELSE None

get_user_by_username(us, username) ==
    IF UsersNamed(us, username) = {} THEN None
    ELSE LET i == CHOOSE j \in UsersNamed(us, username) :
                      \A k \in UsersNamed(us, username) : j <= k
         IN Some(us[i])

\* get_user / get_tag / get_post / get_comment: a copy of the record, or None.
db_get(coll, id) == IF id \in DOMAIN coll THEN Some(coll[id]) ELSE None

\* UserService.user_exists
user_exists(us, user_id) == db_get(us, user_id) # None

\* str.lower(), on the letters of the Latin alphabet.
UpperCase ==
    <<"A", "B", "C", "D", "E", "F", "G", "H", "I", "J", "K", "L", "M", "N",
      "O", "P", "Q", "R", "S", "T", "U", "V", "W", "X", "Y", "Z">>
LowerCase ==
    <<"a", "b", "c", "d", "e", "f", "g", "h", "i", "j", "k", "l", "m", "n",
      "o", "p", "q", "r", "s", "t", "u", "v", "w", "x", "y", "z">>
LowerCaseSensitive(c) == c
Lower(c) ==
    IF \E i \in 1..Len(UpperCase) : UpperCase[i] = c
    THEN LowerCase[CHOOSE i \in 1..Len(UpperCase) : UpperCase[i] = c]
    ELSE c
lower(text) == [i \in 1..Len(text) |-> Lower(text[i])]

\* The classes of the patterns of _slugify: \w (letters, digits and the
\* underscore), \s, and the hyphen.
IsWord(c) ==
    \/ \E i \in 1..Len(UpperCase) : c = UpperCase[i] \/ c = LowerCase[i]
    \/ c \in {"0", "1", "2", "3", "4", "5", "6", "7", "8", "9", "_"}
IsSpace(c) == c \in {" ", "\t", "\n"}

\* re.sub(r'[^\w\s-]', '', text)
StripOthers(text) ==
    LET Stays(c) == IsWord(c) \/ IsSpace(c) \/ c = "-"
    IN SelectSeq(text, Stays)

\* re.sub(r'[-\s]+', '-', text): from left to right, every longest run of
\* hyphens and whitespace becomes one hyphen.
RECURSIVE JoinRuns(_)
JoinRuns(text) ==
    IF text = <<>> THEN <<>>
    ELSE IF Head(text) = "-" \/ IsSpace(Head(text))
    THEN LET rest == JoinRuns(Tail(text))
         IN IF rest # <<>> /\ Head(rest) = "-" THEN rest ELSE <<"-">> \o rest
    ELSE <<Head(text)>> \o JoinRuns(Tail(text))

\* text.strip('-')
RECURSIVE StripHyphens(_)
StripHyphens(text) ==
    IF text = <<>> THEN <<>>
    ELSE IF Head(text) = "-" THEN StripHyphens(Tail(text))
    ELSE IF text[Len(text)] = "-"
    THEN StripHyphens(SubSeq(text, 1, Len(text) - 1))
    ELSE text

\* BlogDatabase._slugify
slugify_keeping_hyphens(text) == JoinRuns(StripOthers(lower(text)))
slugify(text) == StripHyphens(JoinRuns(StripOthers(lower(text))))

\* The tag create_tag builds.
NewTag(id, tag_data) ==
    [id |-> id, name |-> tag_data.name, slug |-> slugify(tag_data.name)]

\* A validation that looks at the first id of the list only.
validate_first_tag_only(tg, tag_ids) ==
    tag_ids = <<>> \/ db_get(tg, Head(tag_ids)) # None

\* TagService.validate_tag_ids: stops at the first id that is not stored.
RECURSIVE validate_tag_ids(_, _)
validate_tag_ids(tg, tag_ids) ==
    IF tag_ids = <<>> THEN TRUE
    ELSE IF db_get(tg, Head(tag_ids)) = None THEN FALSE
    ELSE validate_tag_ids(tg, Tail(tag_ids))

\* ---------------------------------------------------- Store: posts, comments

\* BlogPostCreate.model_dump(): published defaults to False.
dump_post_create(req) ==
    [req EXCEPT !.published = IF req.published = None THEN FALSE
                              ELSE req.published[1]]

\* The post create_post builds from a mapping at time t: published and tags
\* have defaults when the mapping leaves them out.
NewPost(id, post_data, t) ==
    [id |-> id, title |-> post_data.title, content |-> post_data.content,
     author_id |-> post_data.author_id, created_at |-> t,
     updated_at |-> None,
     published |-> IF "published" \in DOMAIN post_data
                   THEN post_data.published ELSE FALSE,
     tags |-> IF "tags" \in DOMAIN post_data THEN post_data.tags ELSE <<>>,
     view_count |-> 0]

\* The filter of BlogPostService.update_post: the keys of the dumped update
\* whose value is not None.
\* A filter that also drops a published flag that is False.
update_dict_truthy(upd) ==
    [k \in {j \in DOMAIN upd :
               upd[j] # None /\ ~(j = "published" /\ upd[j] = Some(FALSE))}
        |-> upd[k]]
update_dict(upd) == [k \in {j \in DOMAIN upd : upd[j] # None} |-> upd[k]]

\* A loop that writes the "id" key like any other.
WrittenKeysWithId(update_data) ==
    {k \in DOMAIN update_data : update_data[k] # None}

\* The keys of a mapping that BlogDatabase.update_post writes.
WrittenKeys(update_data) ==
    {k \in DOMAIN update_data : update_data[k] # None /\ k # "id"}

\* An update that forgets the updated_at stamp.
UpdatedPostNoStamp(post, update_data, t) ==
    [k \in (DOMAIN post) \cup WrittenKeys(update_data) |->
        IF k \in WrittenKeys(update_data) THEN update_data[k][1] ELSE post[k]]

\* The loop of BlogDatabase.update_post and its updated_at stamp, on one post.
UpdatedPost(post, update_data, t) ==
    LET written == [k \in (DOMAIN post) \cup WrittenKeys(update_data) |->
                       IF k \in WrittenKeys(update_data)
                       THEN update_data[k][1] ELSE post[k]]
    IN [written EXCEPT !["updated_at"] = Some(t)]

\* BlogDatabase.update_post: the posts afterwards (unchanged when absent).
db_update_post(ps, post_id, update_data, t) ==
    IF post_id \notin DOMAIN ps THEN ps
    ELSE Put(ps, post_id, UpdatedPost(ps[post_id], update_data, t))

\* BlogDatabase.increment_view_count: the posts afterwards.
increment_view_count(ps, post_id) ==
    IF post_id \in DOMAIN ps
    THEN [ps EXCEPT ![post_id].view_count = @ + 1]
    ELSE ps

\* A cascade that compares the comment's own id with the post id.
delete_comments_by_own_id(cs, post_id) ==
    [c \in {d \in DOMAIN cs : cs[d].id # post_id} |-> cs[c]]

\* BlogDatabase._delete_comments_for_post: the comments afterwards.
delete_comments_for_post(cs, post_id) ==
    [c \in {d \in DOMAIN cs : cs[d].post_id # post_id} |-> cs[c]]

\* The comment create_comment builds at time t.
NewComment(id, comment_data, t) ==
    [id |-> id, post_id |-> comment_data.post_id,
     author_id |-> comment_data.author_id, content |-> comment_data.content,
     created_at |-> t, updated_at |-> None]

\* The state the constructor leaves: _init_sample_data creates two users
\* and three tags.
SampleUsers ==
    Put(Put(<<>>, 1, NewUser(1, [username |-> "admin"], 1)),
        2, NewUser(2, [username |-> "alice"], 1))
SampleTags ==
    Put(Put(Put(<<>>, 1, NewTag(1, [name |-> <<"P", "y", "t", "h", "o", "n">>])),
            2, NewTag(2, [name |-> <<"F", "a", "s", "t", "A", "P", "I">>])),
        3, NewTag(3, [name |-> <<"W", "e", "b", " ", "D", "e", "v", "e", "l",
                                 "o", "p", "m", "e", "n", "t">>]))

Init ==
    /\ users = SampleUsers /\ user_counter = 2
    /\ tags = SampleTags /\ tag_counter = 3
    /\ posts = <<>> /\ post_counter = 0
    /\ comments = <<>> /\ comment_counter = 0
    /\ now = 1
    /\ ret = Ret("init", "ok")
    /\ th = [t \in Threads |-> Idle]
    /\ locks = [user |-> Free, tag |-> Free, post |-> Free, comment |-> Free]
    /\ incs = [p \in PostIds |-> 0]
    /\ cascade_due = <<>>
    /\ issued = [user |-> DOMAIN SampleUsers, tag |-> DOMAIN SampleTags,
                 post |-> {}, comment |-> {}]
    /\ held = {}
    /\ files = <<>>

\* ------------------------------------------------------ orchestration layer
\* Each action is one call, run from start to end with no other caller.

\* UserService.create_user (with BlogDatabase.create_user)
CreateUser(user_data) ==
    /\ IF get_user_by_username(users, user_data.username) # None
       THEN /\ ret' = Ret("create_user", "ValueError: username exists")
            /\ UNCHANGED <<users, user_counter>>
       ELSE /\ user_counter < MaxUsers
            /\ user_counter' = user_counter + 1
            /\ users' = Put(users, user_counter + 1,
                            NewUser(user_counter + 1, user_data, now))
            /\ ret' = Ret("create_user", "ok")
    /\ UNCHANGED <<tags, tag_counter, posts, post_counter, comments,
                   comment_counter, now>>
    /\ UNCHANGED conc
    /\ RecordIssued
    /\ UNCHANGED files
    /\ UNCHANGED held

\* TagService.create_tag (with BlogDatabase.create_tag)
CreateTag(tag_data) ==
    /\ tag_counter < MaxTags
    /\ tag_counter' = tag_counter + 1
    /\ tags' = Put(tags, tag_counter + 1, NewTag(tag_counter + 1, tag_data))
    /\ ret' = Ret("create_tag", "ok")
    /\ UNCHANGED <<users, user_counter, posts, post_counter, comments,
                   comment_counter, now>>
    /\ UNCHANGED conc
    /\ RecordIssued
    /\ UNCHANGED files
    /\ UNCHANGED held

\* BlogPostService.create_post (with BlogDatabase.create_post)
CreatePost(req) ==
    /\ IF ~user_exists(users, req.author_id)
       THEN /\ ret' = Ret("create_post", "ValueError: author does not exist")
            /\ UNCHANGED <<posts, post_counter>>
       ELSE IF req.tags # <<>> /\ ~validate_tag_ids(tags, req.tags)
       THEN /\ ret' = Ret("create_post", "ValueError: tag ids invalid")
            /\ UNCHANGED <<posts, post_counter>>
       ELSE /\ post_counter < MaxPosts
            /\ post_counter' = post_counter + 1
            /\ posts' = Put(posts, post_counter + 1,
                            NewPost(post_counter + 1, dump_post_create(req), now))
            /\ ret' = Ret("create_post", "ok")
    /\ UNCHANGED <<users, user_counter, tags, tag_counter, comments,
                   comment_counter, now>>
    /\ UNCHANGED conc
    /\ RecordIssued
    /\ UNCHANGED files
    /\ UNCHANGED held

\* BlogPostService.get_post (with increment_view_count and get_post)
GetPost(post_id, increment_views) ==
    /\ increment_views /\ post_id \in DOMAIN posts
          => posts[post_id].view_count < MaxViews
    /\ posts' = IF increment_views THEN increment_view_count(posts, post_id)
                ELSE posts
    /\ ret' = Ret("get_post", IF db_get(posts', post_id) = None THEN "None"
                                 ELSE "ok")
    /\ UNCHANGED <<users, user_counter, tags, tag_counter, post_counter,
                   comments, comment_counter, now>>
    /\ UNCHANGED conc
    /\ RecordIssued
    /\ UNCHANGED files
    /\ UNCHANGED held

\* An update_post that looks the post up before it validates the tag ids.
UpdatePostExistenceFirst(post_id, upd) ==
    /\ IF post_id \notin DOMAIN posts
       THEN ret' = Ret("update_post", "None") /\ UNCHANGED posts
       ELSE IF upd.tags # None /\ ~validate_tag_ids(tags, upd.tags[1])
       THEN /\ ret' = Ret("update_post", "ValueError: tag ids invalid")
            /\ UNCHANGED posts
       ELSE /\ posts' = db_update_post(posts, post_id, update_dict(upd), now)
            /\ ret' = Ret("update_post", "ok")
    /\ UNCHANGED <<users, user_counter, tags, tag_counter, post_counter,
                   comments, comment_counter, now>>
    /\ UNCHANGED conc
    /\ RecordIssued
    /\ UNCHANGED files
    /\ UNCHANGED held

\* BlogPostService.update_post (with BlogDatabase.update_post)
UpdatePost(post_id, upd) ==
    /\ IF upd.tags # None /\ ~validate_tag_ids(tags, upd.tags[1])
       THEN /\ ret' = Ret("update_post", "ValueError: tag ids invalid")
            /\ UNCHANGED posts
       ELSE /\ posts' = db_update_post(posts, post_id, update_dict(upd), now)
            /\ ret' = Ret("update_post", IF post_id \in DOMAIN posts THEN "ok"
                                           ELSE "None")
    /\ UNCHANGED <<users, user_counter, tags, tag_counter, post_counter,
                   comments, comment_counter, now>>
    /\ UNCHANGED conc
    /\ RecordIssued
    /\ UNCHANGED files
    /\ UNCHANGED held

\* BlogPostService.delete_post (with BlogDatabase.delete_post and its cascade)
DeletePost(post_id) ==
    /\ IF post_id \in DOMAIN posts
       THEN /\ posts' = Del(posts, post_id)
            /\ comments' = delete_comments_for_post(comments, post_id)
            /\ ret' = Ret("delete_post", "True")
       ELSE /\ ret' = Ret("delete_post", "False")
            /\ UNCHANGED <<posts, comments>>
    /\ UNCHANGED <<users, user_counter, tags, tag_counter, post_counter,
                   comment_counter, now>>
    /\ UNCHANGED conc
    /\ RecordIssued
    /\ UNCHANGED files
    /\ UNCHANGED held

\* A create_comment that validates the author before the post.
CreateCommentAuthorFirst(req) ==
    /\ IF ~user_exists(users, req.author_id)
       THEN /\ ret' = Ret("create_comment", "ValueError: author does not exist")
            /\ UNCHANGED <<comments, comment_counter>>
       ELSE IF db_get(posts, req.post_id) = None
       THEN /\ ret' = Ret("create_comment", "ValueError: post does not exist")
            /\ UNCHANGED <<comments, comment_counter>>
       ELSE /\ comment_counter < MaxComments
            /\ comment_counter' = comment_counter + 1
            /\ comments' = Put(comments, comment_counter + 1,
                               NewComment(comment_counter + 1, req, now))
            /\ ret' = Ret("create_comment", "ok")
    /\ UNCHANGED <<users, user_counter, tags, tag_counter, posts,
                   post_counter, now>>
    /\ UNCHANGED conc
    /\ RecordIssued
    /\ UNCHANGED files
    /\ UNCHANGED held

\* CommentService.create_comment (with BlogDatabase.create_comment)
CreateComment(req) ==
    /\ IF db_get(posts, req.post_id) = None
       THEN /\ ret' = Ret("create_comment", "ValueError: post does not exist")
            /\ UNCHANGED <<comments, comment_counter>>
       ELSE IF ~user_exists(users, req.author_id)
       THEN /\ ret' = Ret("create_comment", "ValueError: author does not exist")
            /\ UNCHANGED <<comments, comment_counter>>
       ELSE /\ comment_counter < MaxComments
            /\ comment_counter' = comment_counter + 1
            /\ comments' = Put(comments, comment_counter + 1,
                               NewComment(comment_counter + 1, req, now))
            /\ ret' = Ret("create_comment", "ok")
    /\ UNCHANGED <<users, user_counter, tags, tag_counter, posts,
                   post_counter, now>>
    /\ UNCHANGED conc
    /\ RecordIssued
    /\ UNCHANGED files
    /\ UNCHANGED held

\* CommentService.delete_comment (with BlogDatabase.delete_comment)
DeleteComment(comment_id) ==
    /\ IF comment_id \in DOMAIN comments
       THEN comments' = Del(comments, comment_id) /\ ret' = Ret("delete_comment", "True")
       ELSE ret' = Ret("delete_comment", "False") /\ UNCHANGED comments
    /\ UNCHANGED <<users, user_counter, tags, tag_counter, posts,
                   post_counter, comment_counter, now>>
    /\ UNCHANGED conc
    /\ RecordIssued
    /\ UNCHANGED files
    /\ UNCHANGED held

\* The clock moves on.
Tick ==
    /\ now < MaxTime
    /\ now' = now + 1
    /\ UNCHANGED <<store, ret>>
    /\ UNCHANGED conc
    /\ RecordIssued
    /\ UNCHANGED files
    /\ UNCHANGED held

\* Users and tags: every username and tag name.
NextUsers ==
    \/ \E d \in UserCreate : CreateUser(d)
    \/ \E d \in TagCreate : CreateTag(d)
    \/ Tick

SpecUsers == Init /\ [][NextUsers]_vars

\* Posts and their comments, with one more user: the posts carry one title
\* and one content and are not updated.
PlainPosts ==
    {r \in BlogPostCreate :
        /\ r.title = "T1" /\ r.content = "X1" /\ r.published = None
        /\ r.author_id \in {1, MaxUsers + 1}
        /\ r.tags \in {<<>>, <<1, 4>>}}
PlainComments == {r \in CommentCreate : r.author_id \in {2, 3, MaxUsers + 1}}

Next ==
    \/ CreateUser([username |-> "bob"])
    \/ \E d \in PlainPosts : CreatePost(d)
    \/ \E p \in PostIds : DeletePost(p)
    \/ \E d \in PlainComments : CreateComment(d)
    \/ \E c \in CommentIds : DeleteComment(c)
    \/ Tick

Spec == Init /\ [][Next]_vars

\* Creating a post: every author id, published flag and tag list, with one
\* more user and one more tag, so that whether an author id or a tag id is
\* stored changes.
CreatePosts ==
    {r \in BlogPostCreate : r.title = "T1" /\ r.content = "X1"
                            /\ r.author_id \in {1, 3, MaxUsers + 1}}

NextCreate ==
    \/ CreateUser([username |-> "bob"])
    \/ CreateTag([name |-> <<"G", "o">>])
    \/ \E d \in CreatePosts : CreatePost(d)
    \/ \E p \in PostIds : DeletePost(p)

SpecCreate == Init /\ [][NextCreate]_vars

\* The fields of a post: posts of a sample user, created published and
\* tagged, and the updates that give or leave out a new title, a new content,
\* published = False, and an empty tag list or one naming a tag not stored.
FieldPosts ==
    {r \in BlogPostCreate : r.title = "T1" /\ r.content = "X1" /\ r.author_id = 1
                            /\ r.published = Some(TRUE) /\ r.tags = <<2, 1>>}
FieldUpdates ==
    {u \in BlogPostUpdate :
        /\ u.title \in {None, Some("T2")}
        /\ u.content \in {None, Some("X2")}
        /\ u.published \in {None, Some(FALSE)}
        /\ u.tags \in {None, Some(<<>>), Some(<<MaxTags + 1, 1>>)}}
FieldPostIds == 1..(MaxFieldPosts + 1)

NextPosts ==
    \/ \E d \in FieldPosts : post_counter < MaxFieldPosts /\ CreatePost(d)
    \/ \E p \in FieldPostIds, inc \in BOOLEAN : GetPost(p, inc)
    \/ \E p \in FieldPostIds, u \in FieldUpdates : UpdatePost(p, u)
    \/ Tick

SpecPosts == Init /\ [][NextPosts]_vars

\* Lookups and operations addressed to ids that may not be stored.

\* BlogPostUpdate(published=...) of publish_post and unpublish_post.
PublishUpdate(published) ==
    [title |-> None, content |-> None, published |-> Some(published),
     tags |-> None]

\* BlogPostService.publish_post and unpublish_post
PublishPost(post_id, published) == UpdatePost(post_id, PublishUpdate(published))

\* UserService.get_user
GetUser(user_id) ==
    /\ ret' = Ret("get_user", IF db_get(users, user_id) = None THEN "None"
                              ELSE "ok")
    /\ UNCHANGED <<store, now, conc>>
    /\ RecordIssued
    /\ UNCHANGED files
    /\ UNCHANGED held

\* TagService.get_tag
GetTag(tag_id) ==
    /\ ret' = Ret("get_tag", IF db_get(tags, tag_id) = None THEN "None"
                             ELSE "ok")
    /\ UNCHANGED <<store, now, conc>>
    /\ RecordIssued
    /\ UNCHANGED files
    /\ UNCHANGED held

\* CommentService.get_comment
GetComment(comment_id) ==
    /\ ret' = Ret("get_comment", IF db_get(comments, comment_id) = None
                                 THEN "None" ELSE "ok")
    /\ UNCHANGED <<store, now, conc>>
    /\ RecordIssued
    /\ UNCHANGED files
    /\ UNCHANGED held

\* The updates give or leave out a title, and a tag list of stored tags or
\* one naming a tag that is not stored.
LookupUpdates ==
    {u \in BlogPostUpdate :
        /\ u.title \in {None, Some("T2")} /\ u.content = None
        /\ u.published = None
        /\ u.tags \in {None, Some(<<2, 1>>), Some(<<MaxTags + 1, 1>>)}}
LookupPosts ==
    {r \in PlainPosts : r.author_id = 1 /\ r.tags = <<>>}
LookupComments == {r \in CommentCreate : r.author_id = 2}

NextLookup ==
    \/ \E d \in LookupPosts : post_counter < MaxFieldPosts /\ CreatePost(d)
    \/ \E d \in LookupComments : CreateComment(d)
    \/ \E p \in FieldPostIds, inc \in BOOLEAN : GetPost(p, inc)
    \/ \E p \in FieldPostIds, u \in LookupUpdates : UpdatePost(p, u)
    \/ \E p \in FieldPostIds, b \in BOOLEAN : PublishPost(p, b)
    \/ \E p \in FieldPostIds : DeletePost(p)
    \/ \E c \in CommentIds : GetComment(c)
    \/ \E c \in CommentIds : DeleteComment(c)
    \/ \E u \in UserIds : GetUser(u)
    \/ \E g \in TagIds : GetTag(g)
    \/ Tick

SpecLookup == Init /\ [][NextLookup]_vars

\* ------------------------------------------------------- lists of posts
\* search_posts and get_all_posts.  Here a title, a content and a query are
\* sequences of characters, so that lower() and `in` are what they are in
\* the code.

\* `q in text` of two strings: q is a run of consecutive characters of text.
Contains(q, text) ==
    \E i \in 0..(Len(text) - Len(q)) : SubSeq(text, i + 1, i + Len(q)) = q

\* The values of a dict in its insertion order: the ids are handed out in
\* increasing order and each is inserted as it is handed out.
RECURSIVE values(_)
values(coll) ==
    IF DOMAIN coll = {} THEN <<>>
    ELSE LET last == CHOOSE i \in DOMAIN coll : \A j \in DOMAIN coll : j <= i
         IN Append(values(Del(coll, last)), coll[last])

\* sorted(..., key=created_at, reverse=True): the sort is stable, records
\* with equal created_at keep the order they came in.
RECURSIVE sorted_newest_first(_)
sorted_newest_first(records) ==
    IF records = <<>> THEN <<>>
    ELSE LET n == Len(records)
             x == records[n]
             s == sorted_newest_first(SubSeq(records, 1, n - 1))
             k == Cardinality({i \in 1..Len(s) :
                                  s[i].created_at >= x.created_at})
         IN SubSeq(s, 1, k) \o <<x>> \o SubSeq(s, k + 1, Len(s))

\* BlogDatabase.search_posts
search_posts_titles_only(ps, query) ==
    LET query_lower == lower(query)
        Hit(post) == Contains(query_lower, lower(post.title))
    IN sorted_newest_first(SelectSeq(values(ps), Hit))
search_posts(ps, query) ==
    LET query_lower == lower(query)
        Hit(post) == \/ Contains(query_lower, lower(post.title))
                     \/ Contains(query_lower, lower(post.content))
    IN sorted_newest_first(SelectSeq(values(ps), Hit))

\* BlogDatabase.get_all_posts
get_all_posts_unfiltered(ps, published_only) ==
    sorted_newest_first(values(ps))
get_all_posts(ps, published_only) ==
    LET Kept(post) == published_only => post.published
    IN sorted_newest_first(SelectSeq(values(ps), Kept))

\* BlogPostService.search_posts
SearchPosts(query) ==
    /\ ret' = [op |-> "search_posts", status |-> "ok", query |-> query,
               value |-> search_posts(posts, query)]
    /\ UNCHANGED <<store, now, conc, held>>
    /\ RecordIssued
    /\ UNCHANGED files

\* BlogPostService.get_all_posts
GetAllPosts(published_only) ==
    /\ ret' = [op |-> "get_all_posts", status |-> "ok",
               published_only |-> published_only,
               value |-> get_all_posts(posts, published_only)]
    /\ UNCHANGED <<store, now, conc, held>>
    /\ RecordIssued
    /\ UNCHANGED files

\* Titles, contents and queries in upper and lower case, the empty query
\* and a query no text contains.
ListTitles == {<<"A", "b">>, <<"b", "a">>}
ListContents == {<<"B">>, <<"C">>}
Queries == {<<>>, <<"a">>, <<"B">>, <<"a", "B">>, <<"c">>, <<"b", "b">>}
ListPosts ==
    [title : ListTitles, content : ListContents, author_id : {1},
     published : {None, Some(TRUE)}, tags : {<<>>}]

\* Tags whose names are the strings of up to MaxNameLen characters over a
\* capital and a small letter, the underscore, a punctuation mark, the
\* blank and the hyphen.
SlugNames ==
    UNION {[1..n -> {"A", "b", "_", "+", " ", "-"}] : n \in 1..MaxNameLen}

NextTags ==
    \/ \E name \in SlugNames : CreateTag([name |-> name])
    \/ \E g \in TagIds : GetTag(g)

SpecTags == Init /\ [][NextTags]_vars

NextLists ==
    \/ \E d \in ListPosts : CreatePost(d)
    \/ \E p \in PostIds : DeletePost(p)
    \/ \E q \in Queries : SearchPosts(q)
    \/ \E b \in BOOLEAN : GetAllPosts(b)
    \/ Tick

SpecLists == Init /\ [][NextLists]_vars

\* ----------------------------------------------------- lists of comments

\* sorted(..., key=created_at): stable, oldest first.
RECURSIVE sorted_oldest_first(_)
sorted_oldest_first(records) ==
    IF records = <<>> THEN <<>>
    ELSE LET n == Len(records)
             x == records[n]
             s == sorted_oldest_first(SubSeq(records, 1, n - 1))
             k == Cardinality({i \in 1..Len(s) :
                                  s[i].created_at <= x.created_at})
         IN SubSeq(s, 1, k) \o <<x>> \o SubSeq(s, k + 1, Len(s))

\* BlogDatabase.get_comments_for_post
get_comments_for_post_newest_first(cs, post_id) ==
    LET On(c) == c.post_id = post_id
    IN sorted_newest_first(SelectSeq(values(cs), On))
get_comments_for_post(cs, post_id) ==
    LET On(c) == c.post_id = post_id
    IN sorted_oldest_first(SelectSeq(values(cs), On))

\* BlogDatabase.get_comment_count_for_post: one for each value of the dict
\* that is on the post.
get_comment_count_for_post(cs, post_id) ==
    LET On(c) == c.post_id = post_id
    IN Len(SelectSeq(values(cs), On))

\* CommentService.get_comments_for_post
GetCommentsForPost(post_id) ==
    /\ ret' = [op |-> "get_comments_for_post", status |-> "ok",
               post_id |-> post_id,
               value |-> get_comments_for_post(comments, post_id)]
    /\ UNCHANGED <<store, now, conc, held>>
    /\ RecordIssued
    /\ UNCHANGED files

\* Comments of one author on posts of one author; the posts and the
\* comments are created, listed and deleted while the clock moves on or
\* stands still.
NextComments ==
    \/ \E d \in LookupPosts : CreatePost(d)
    \/ \E p \in PostIds : DeletePost(p)
    \/ \E d \in LookupComments : CreateComment(d)
    \/ \E c \in CommentIds : DeleteComment(c)
    \/ \E p \in PostIds : GetCommentsForPost(p)
    \/ Tick

SpecComments == Init /\ [][NextComments]_vars

\* ------------------------------------------------------------ statistics
\* BlogStatisticsService.get_most_viewed_posts and get_most_commented_posts.

\* sorted(..., key=<field>, reverse=True): stable, records with equal keys
\* keep the order they came in.
RECURSIVE sorted_most_first(_, _)
sorted_most_first(records, key) ==
    IF records = <<>> THEN <<>>
    ELSE LET n == Len(records)
             x == records[n]
             s == sorted_most_first(SubSeq(records, 1, n - 1), key)
             k == Cardinality({i \in 1..Len(s) : s[i][key] >= x[key]})
         IN SubSeq(s, 1, k) \o <<x>> \o SubSeq(s, k + 1, Len(s))

\* records[:limit]: the first limit records, and all but the last -limit
\* when limit is negative.
UpTo(records, limit) ==
    LET n == Len(records)
        m == IF limit >= 0 THEN limit ELSE n + limit
    IN SubSeq(records, 1, IF m > n THEN n ELSE IF m < 0 THEN 0 ELSE m)

\* BlogStatisticsService.get_most_viewed_posts
get_most_viewed_posts_newest(ps, limit) ==
    UpTo(get_all_posts(ps, FALSE), limit)
get_most_viewed_posts(ps, limit) ==
    UpTo(sorted_most_first(get_all_posts(ps, FALSE), "view_count"), limit)

\* BlogPostSummary(**post_dict, comment_count=...): content and updated_at
\* are not fields of a summary.
BlogPostSummary(post, comment_count) ==
    [id |-> post.id, title |-> post.title, author_id |-> post.author_id,
     created_at |-> post.created_at, published |-> post.published,
     tags |-> post.tags, view_count |-> post.view_count,
     comment_count |-> comment_count]

\* BlogPostService.get_posts_summary
get_posts_summary(ps, cs, published_only) ==
    LET listed == get_all_posts(ps, published_only)
    IN [i \in 1..Len(listed) |->
          BlogPostSummary(listed[i],
                          get_comment_count_for_post(cs, listed[i].id))]

\* BlogStatisticsService.get_most_commented_posts
get_most_commented_posts_published(ps, cs, limit) ==
    UpTo(sorted_most_first(get_posts_summary(ps, cs, TRUE), "comment_count"),
         limit)
get_most_commented_posts(ps, cs, limit) ==
    UpTo(sorted_most_first(get_posts_summary(ps, cs, FALSE), "comment_count"),
         limit)

GetMostViewedPosts(limit) ==
    /\ ret' = [op |-> "get_most_viewed_posts", status |-> "ok",
               limit |-> limit, value |-> get_most_viewed_posts(posts, limit)]
    /\ UNCHANGED <<store, now, conc, held>>
    /\ RecordIssued
    /\ UNCHANGED files

GetMostCommentedPosts(limit) ==
    /\ ret' = [op |-> "get_most_commented_posts", status |-> "ok",
               limit |-> limit,
               value |-> get_most_commented_posts(posts, comments, limit)]
    /\ UNCHANGED <<store, now, conc, held>>
    /\ RecordIssued
    /\ UNCHANGED files

\* Posts of one author, published or not, viewed and commented on; limits
\* below, at and above the number of posts.
StatPosts ==
    {r \in CreatePosts : r.author_id = 1 /\ r.tags = <<>>
                          /\ r.published \in {None, Some(TRUE)}}
Limits == {1, 2, MaxPosts + 1}

NextStats ==
    \/ \E d \in StatPosts : CreatePost(d)
    \/ \E p \in PostIds : GetPost(p, TRUE)
    \/ \E p \in PostIds : DeletePost(p)
    \/ \E d \in LookupComments : CreateComment(d)
    \/ \E c \in CommentIds : DeleteComment(c)
    \/ \E l \in Limits : GetMostViewedPosts(l)
    \/ \E l \in Limits : GetMostCommentedPosts(l)
    \/ Tick

SpecStats == Init /\ [][NextStats]_vars

\* ------------------------------------------------------- MiniFileManager
\* mini_file.py: files maps the name of each file of base_dir to the
\* characters it holds.  A text is the sequence of its characters.

\* Path.write_text(content): the file is opened in text mode, which writes
\* every "\n" as os.linesep ("\n" on POSIX) and everything else as it is.
RECURSIVE write_text(_)
write_text(content) ==
    IF content = <<>> THEN <<>>
    ELSE (IF Head(content) = "\n" THEN <<"\n">> ELSE <<Head(content)>>)
         \o write_text(Tail(content))

\* Path.read_text(): the file is opened in text mode with universal
\* newlines, which reads "\r\n" and a lone "\r" as "\n".
RECURSIVE read_text(_)
read_text(stored) ==
    IF stored = <<>> THEN <<>>
    ELSE IF Head(stored) = "\r"
    THEN <<"\n">> \o read_text(IF Len(stored) > 1 /\ stored[2] = "\n"
                                THEN Tail(Tail(stored)) ELSE Tail(stored))
    ELSE <<Head(stored)>> \o read_text(Tail(stored))

\* The names callers pass: two names in base_dir and one in a directory
\* that does not exist.  The contents: every text of up to MaxTextLen
\* characters over a letter, the carriage return and the line feed.
FileNames == {"a.txt", "b.txt", "missing/c.txt"}
FileTexts == UNION {[1..n -> {"x", "\r", "\n"}] : n \in 0..MaxTextLen}

\* MiniFileManager.create_file
CreateFile(filename, content) ==
    /\ IF filename = "missing/c.txt"
       THEN /\ ret' = [op |-> "create_file", status |-> "Error creating file",
                       filename |-> filename]
            /\ UNCHANGED files
       ELSE /\ files' = Put(files, filename, write_text(content))
            /\ ret' = [op |-> "create_file", status |-> "Created file",
                       filename |-> filename]
    /\ UNCHANGED <<store, now, conc, issued, held>>

\* MiniFileManager.read_file
ReadFile(filename) ==
    /\ ret' = IF filename \in DOMAIN files
              THEN [op |-> "read_file", status |-> "Content of",
                    filename |-> filename,
                    content |-> read_text(files[filename])]
              ELSE [op |-> "read_file", status |-> "File not found",
                    filename |-> filename]
    /\ UNCHANGED <<store, now, conc, issued, held, files>>

\* A delete_file that empties base_dir.
DeleteEveryFile(filename) ==
    /\ IF filename \in DOMAIN files
       THEN /\ files' = <<>>
            /\ ret' = [op |-> "delete_file", status |-> "Deleted file",
                       filename |-> filename]
       ELSE /\ ret' = [op |-> "delete_file", status |-> "File not found",
                       filename |-> filename]
            /\ UNCHANGED files
    /\ UNCHANGED <<store, now, conc, issued, held>>

\* MiniFileManager.delete_file
DeleteFile(filename) ==
    /\ IF filename \in DOMAIN files
       THEN /\ files' = Del(files, filename)
            /\ ret' = [op |-> "delete_file", status |-> "Deleted file",
                       filename |-> filename]
       ELSE /\ ret' = [op |-> "delete_file", status |-> "File not found",
                       filename |-> filename]
            /\ UNCHANGED files
    /\ UNCHANGED <<store, now, conc, issued, held>>

\* MiniFileManager.file_exists
FileExists(filename) ==
    /\ ret' = [op |-> "file_exists",
               status |-> IF filename \in DOMAIN files THEN "True" ELSE "False",
               filename |-> filename]
    /\ UNCHANGED <<store, now, conc, issued, held, files>>

NextFiles ==
    \/ \E f \in FileNames, c \in FileTexts : CreateFile(f, c)
    \/ \E f \in FileNames : ReadFile(f)
    \/ \E f \in FileNames : DeleteFile(f)
    \/ \E f \in FileNames : FileExists(f)

SpecFiles == Init /\ [][NextFiles]_vars

\* ------------------------------------------------------------ the Store
\* BlogDatabase's own post operations, called directly, one at a time.

\* The mappings passed to create_post: with and without published and tags.
StorePostData ==
    [title : {"T1"}, content : {"X1"}, author_id : {1}]
    \cup [title : {"T1"}, content : {"X1"}, author_id : {1},
          published : {TRUE}, tags : {<<1>>}]
\* The mappings passed to update_post: any keys, with a value or None.
StoreUpdateData ==
    {<<>>} \cup [title : Opt({"T2"})] \cup [view_count : Opt({0})]
    \cup [id : {Some(MaxPosts + 1)}, published : Opt({TRUE})]

\* BlogDatabase.create_post
DbCreatePost(post_data) ==
    /\ post_counter < MaxPosts
    /\ post_counter' = post_counter + 1
    /\ posts' = Put(posts, post_counter + 1,
                    NewPost(post_counter + 1, post_data, now))
    /\ ret' = Ret("db.create_post", "ok")
    /\ UNCHANGED <<users, user_counter, tags, tag_counter, comments,
                   comment_counter, now>>
    /\ UNCHANGED conc
    /\ RecordIssued
    /\ UNCHANGED files
    /\ held' = held \cup {post_counter + 1}

\* BlogDatabase.update_post
DbUpdatePost(post_id, update_data) ==
    /\ posts' = db_update_post(posts, post_id, update_data, now)
    /\ ret' = Ret("db.update_post", IF post_id \in DOMAIN posts THEN "ok"
                                    ELSE "None")
    /\ UNCHANGED <<users, user_counter, tags, tag_counter, post_counter,
                   comments, comment_counter, now>>
    /\ UNCHANGED conc
    /\ RecordIssued
    /\ UNCHANGED files
    /\ UNCHANGED held

\* BlogDatabase.increment_view_count
DbIncrementViewCount(post_id) ==
    /\ post_id \in DOMAIN posts => posts[post_id].view_count < MaxViews
    /\ posts' = increment_view_count(posts, post_id)
    /\ ret' = Ret("db.increment_view_count",
                  IF post_id \in DOMAIN posts THEN "True" ELSE "False")
    /\ UNCHANGED <<users, user_counter, tags, tag_counter, post_counter,
                   comments, comment_counter, now>>
    /\ UNCHANGED conc
    /\ RecordIssued
    /\ UNCHANGED files
    /\ UNCHANGED held

\* BlogDatabase.delete_post
DbDeletePost(post_id) ==
    /\ IF post_id \in DOMAIN posts
       THEN /\ posts' = Del(posts, post_id)
            /\ comments' = delete_comments_for_post(comments, post_id)
            /\ ret' = Ret("db.delete_post", "True")
       ELSE /\ ret' = Ret("db.delete_post", "False")
            /\ UNCHANGED <<posts, comments>>
    /\ UNCHANGED <<users, user_counter, tags, tag_counter, post_counter,
                   comment_counter, now>>
    /\ UNCHANGED conc
    /\ RecordIssued
    /\ UNCHANGED files
    /\ held' = held \ {post_id}

\* The mutable values of a post record: dict.copy() copies the record and
\* shares these with the stored one.
SharedByCopy == {"tags"}

\* BlogDatabase.get_post: the caller is handed a copy of the record.
DbGetPost(post_id) ==
    /\ ret' = Ret("db.get_post", IF db_get(posts, post_id) = None THEN "None"
                                 ELSE "ok")
    /\ held' = IF post_id \in DOMAIN posts /\ "tags" \in SharedByCopy
               THEN held \cup {post_id} ELSE held
    /\ UNCHANGED <<store, now, conc>>
    /\ RecordIssued
    /\ UNCHANGED files

\* A caller appends a tag id to the tag list of a record it was handed, or
\* to the list it passed to create_post.
CallerAppendsTag(post_id, tag_id) ==
    /\ post_id \in held /\ post_id \in DOMAIN posts
    /\ Len(posts[post_id].tags) < MaxListLen
    /\ posts' = [posts EXCEPT ![post_id].tags = Append(@, tag_id)]
    /\ ret' = Ret("caller: tags.append", "ok")
    /\ UNCHANGED <<users, user_counter, tags, tag_counter, post_counter,
                   comments, comment_counter, now, conc, held>>
    /\ RecordIssued
    /\ UNCHANGED files

\* A caller assigns a title in a record it was handed: the record is a copy.
CallerSetsTitle(post_id) ==
    /\ post_id \in held /\ post_id \in DOMAIN posts
    /\ ret' = Ret("caller: record[title] =", "ok")
    /\ UNCHANGED <<store, now, conc, held>>
    /\ RecordIssued
    /\ UNCHANGED files

\* The mappings passed to update_post: a title, or a tag list.
CopyUpdateData == [title : {Some("T2")}] \cup [tags : {Some(<<2>>)}]

\* The Store's post operations and what callers do with what they return.
NextCopies ==
    \/ \E d \in StorePostData : DbCreatePost(d)
    \/ \E p \in PostIds : DbGetPost(p)
    \/ \E p \in PostIds, u \in CopyUpdateData : DbUpdatePost(p, u)
    \/ \E p \in PostIds : DbDeletePost(p)
    \/ \E p \in PostIds, g \in {3, MaxTags + 1} : CallerAppendsTag(p, g)
    \/ \E p \in PostIds : CallerSetsTitle(p)

SpecCopies == Init /\ [][NextCopies]_vars

NextStore ==
    \/ \E d \in StorePostData : DbCreatePost(d)
    \/ \E p \in PostIds, u \in StoreUpdateData : DbUpdatePost(p, u)
    \/ \E p \in PostIds : DbIncrementViewCount(p)
    \/ \E p \in PostIds : DbDeletePost(p)
    \/ Tick

SpecStore == Init /\ [][NextStore]_vars

\* ------------------------------------------------------ concurrent callers
\* Each caller runs one orchestration operation at a time.  An operation is
\* split where the code takes a lock, releases it, or reads a collection
\* without one; the statements between two such places are one step.  A
\* caller blocked on a lock has not taken the step that acquires it.

\* `with lock:` is entered only when nobody holds the lock.
AcquireAlways(holder) == TRUE
Acquire(holder) == holder = Free

\* The callers whose place is one of pcs.
At(pcs) == {t \in Threads : th[t].pc \in pcs}

Goto(t, place) == th' = [th EXCEPT ![t] = place]

\* The calls whose first statement takes a lock, and the lock it takes.
DeletePostCall(post_id) == [op |-> "delete_post", id |-> post_id]
IncrementCall(post_id) == [op |-> "increment_view_count", id |-> post_id]
DeleteCommentCall(comment_id) == [op |-> "delete_comment", id |-> comment_id]
CreateTagCall(tag_data) == [op |-> "create_tag", id |-> tag_data.name]
LockOf(call) ==
    IF call.op \in {"delete_post", "increment_view_count"} THEN locks.post
    ELSE IF call.op = "delete_comment" THEN locks.comment
    ELSE locks.tag

\* Caller t enters the call now: it is in no call, or it has been blocked on
\* the lock of this very call.
Begins(t, call) ==
    \/ th[t].pc = "idle"
    \/ th[t].pc = "waiting" /\ th[t].call = call

\* Caller t makes a call whose lock another caller holds: it blocks.
Wait(t, call) ==
    /\ th[t].pc = "idle"
    /\ ~Acquire(LockOf(call))
    /\ Goto(t, [pc |-> "waiting", call |-> call])
    /\ UNCHANGED <<store, now, ret, locks, incs, cascade_due, held>>
    /\ RecordIssued
    /\ UNCHANGED files

\* UserService.create_user, line 36-38: the username lookup, lock-free.
CallCreateUser(t, user_data) ==
    /\ th[t].pc = "idle"
    /\ user_counter + Cardinality(At({"cu_lock"})) < MaxUsers
    /\ IF get_user_by_username(users, user_data.username) # None
       THEN Goto(t, Idle)
       ELSE Goto(t, [pc |-> "cu_lock", data |-> user_data])
    /\ UNCHANGED <<store, now, ret, locks, incs, cascade_due>>
    /\ RecordIssued
    /\ UNCHANGED files
    /\ UNCHANGED held

\* BlogDatabase.create_user, line 67-69: take user_lock, advance the counter.
LockCreateUser(t) ==
    /\ th[t].pc = "cu_lock"
    /\ Acquire(locks.user)
    /\ locks' = [locks EXCEPT !.user = t]
    /\ user_counter' = user_counter + 1
    /\ Goto(t, [th[t] EXCEPT !.pc = "cu_insert"])
    /\ UNCHANGED <<users, tags, tag_counter, posts, post_counter, comments,
                   comment_counter, now, ret, incs, cascade_due>>
    /\ RecordIssued
    /\ UNCHANGED files
    /\ UNCHANGED held

\* BlogDatabase.create_user, line 70-78: build the user under the id the
\* counter now holds, store it, release user_lock.
InsertUser(t) ==
    /\ th[t].pc = "cu_insert"
    /\ users' = Put(users, user_counter, NewUser(user_counter, th[t].data, now))
    /\ locks' = [locks EXCEPT !.user = Free]
    /\ Goto(t, Idle)
    /\ UNCHANGED <<user_counter, tags, tag_counter, posts, post_counter,
                   comments, comment_counter, now, ret, incs, cascade_due>>
    /\ RecordIssued
    /\ UNCHANGED files
    /\ UNCHANGED held

\* BlogPostService.create_post, line 115-120: the author and tag checks,
\* lock-free (users and tags are never removed, so the checks read as one).
CallCreatePost(t, req) ==
    /\ th[t].pc = "idle"
    /\ post_counter + Cardinality(At({"cp_lock"})) < MaxPosts
    /\ IF \/ ~user_exists(users, req.author_id)
          \/ req.tags # <<>> /\ ~validate_tag_ids(tags, req.tags)
       THEN Goto(t, Idle)
       ELSE Goto(t, [pc |-> "cp_lock", data |-> dump_post_create(req)])
    /\ UNCHANGED <<store, now, ret, locks, incs, cascade_due>>
    /\ RecordIssued
    /\ UNCHANGED files
    /\ UNCHANGED held

\* BlogDatabase.create_post, line 127-129: take post_lock, advance the counter.
LockCreatePost(t) ==
    /\ th[t].pc = "cp_lock"
    /\ Acquire(locks.post)
    /\ locks' = [locks EXCEPT !.post = t]
    /\ post_counter' = post_counter + 1
    /\ Goto(t, [th[t] EXCEPT !.pc = "cp_insert"])
    /\ UNCHANGED <<users, user_counter, tags, tag_counter, posts, comments,
                   comment_counter, now, ret, incs, cascade_due>>
    /\ RecordIssued
    /\ UNCHANGED files
    /\ UNCHANGED held

\* BlogDatabase.create_post, line 130-141: store the post, release post_lock.
InsertPost(t) ==
    /\ th[t].pc = "cp_insert"
    /\ posts' = Put(posts, post_counter, NewPost(post_counter, th[t].data, now))
    /\ locks' = [locks EXCEPT !.post = Free]
    /\ Goto(t, Idle)
    /\ UNCHANGED <<users, user_counter, tags, tag_counter, post_counter,
                   comments, comment_counter, now, ret, incs, cascade_due>>
    /\ RecordIssued
    /\ UNCHANGED files
    /\ UNCHANGED held

\* CommentService.create_comment, line 246-247: the post check, lock-free.
CallCreateComment(t, req) ==
    /\ th[t].pc = "idle"
    /\ comment_counter + Cardinality(At({"cc_author", "cc_lock"})) < MaxComments
    /\ IF db_get(posts, req.post_id) = None
       THEN Goto(t, Idle)
       ELSE Goto(t, [pc |-> "cc_author", data |-> req])
    /\ UNCHANGED <<store, now, ret, locks, incs, cascade_due>>
    /\ RecordIssued
    /\ UNCHANGED files
    /\ UNCHANGED held

\* CommentService.create_comment, line 250-251: the author check, lock-free.
CheckCommentAuthor(t) ==
    /\ th[t].pc = "cc_author"
    /\ IF ~user_exists(users, th[t].data.author_id)
       THEN Goto(t, Idle)
       ELSE Goto(t, [th[t] EXCEPT !.pc = "cc_lock"])
    /\ UNCHANGED <<store, now, ret, locks, incs, cascade_due>>
    /\ RecordIssued
    /\ UNCHANGED files
    /\ UNCHANGED held

\* BlogDatabase.create_comment, line 207-209: take comment_lock, advance the
\* counter.
LockCreateComment(t) ==
    /\ th[t].pc = "cc_lock"
    /\ Acquire(locks.comment)
    /\ locks' = [locks EXCEPT !.comment = t]
    /\ comment_counter' = comment_counter + 1
    /\ Goto(t, [th[t] EXCEPT !.pc = "cc_insert"])
    /\ UNCHANGED <<users, user_counter, tags, tag_counter, posts, post_counter,
                   comments, now, ret, incs, cascade_due>>
    /\ RecordIssued
    /\ UNCHANGED files
    /\ UNCHANGED held

\* An insert that waits for post_lock while it holds comment_lock.
InsertCommentUnderPostLock(t) ==
    /\ Acquire(locks.post)
    /\ th[t].pc = "cc_insert"
    /\ comments' = Put(comments, comment_counter,
                       NewComment(comment_counter, th[t].data, now))
    /\ locks' = [locks EXCEPT !.comment = Free]
    /\ Goto(t, Idle)
    /\ UNCHANGED <<users, user_counter, tags, tag_counter, posts, post_counter,
                   comment_counter, now, ret, incs, cascade_due>>
    /\ RecordIssued
    /\ UNCHANGED files
    /\ UNCHANGED held

\* BlogDatabase.create_comment, line 210-218: store the comment, release
\* comment_lock.
InsertComment(t) ==
    /\ th[t].pc = "cc_insert"
    /\ comments' = Put(comments, comment_counter,
                       NewComment(comment_counter, th[t].data, now))
    /\ locks' = [locks EXCEPT !.comment = Free]
    /\ Goto(t, Idle)
    /\ UNCHANGED <<users, user_counter, tags, tag_counter, posts, post_counter,
                   comment_counter, now, ret, incs, cascade_due>>
    /\ RecordIssued
    /\ UNCHANGED files
    /\ UNCHANGED held

\* A delete_post that removes the post without waiting for post_lock.
CallDeletePostUnlocked(t, post_id) ==
    /\ Begins(t, DeletePostCall(post_id))
    /\ IF post_id \in DOMAIN posts
       THEN /\ posts' = Del(posts, post_id)
            /\ locks' = [locks EXCEPT !.post = t]
            /\ cascade_due' =
                  Put(cascade_due, post_id,
                      {c \in DOMAIN comments : comments[c].post_id = post_id})
            /\ Goto(t, [pc |-> "dp_cascade", post_id |-> post_id])
       ELSE /\ Goto(t, Idle)
            /\ UNCHANGED <<posts, locks, cascade_due>>
    /\ UNCHANGED <<users, user_counter, tags, tag_counter, post_counter,
                   comments, comment_counter, now, ret, incs>>
    /\ RecordIssued
    /\ UNCHANGED files
    /\ UNCHANGED held

\* BlogDatabase.delete_post, line 163-166: take post_lock; remove the post and
\* go on to the cascade holding the lock, or find no post and release it.
\* cascade_due records the comments the post had when it was removed.
CallDeletePost(t, post_id) ==
    /\ Begins(t, DeletePostCall(post_id))
    /\ Acquire(locks.post)
    /\ IF post_id \in DOMAIN posts
       THEN /\ posts' = Del(posts, post_id)
            /\ locks' = [locks EXCEPT !.post = t]
            /\ cascade_due' =
                  Put(cascade_due, post_id,
                      {c \in DOMAIN comments : comments[c].post_id = post_id})
            /\ Goto(t, [pc |-> "dp_cascade", post_id |-> post_id])
       ELSE /\ Goto(t, Idle)
            /\ UNCHANGED <<posts, locks, cascade_due>>
    /\ UNCHANGED <<users, user_counter, tags, tag_counter, post_counter,
                   comments, comment_counter, now, ret, incs>>
    /\ RecordIssued
    /\ UNCHANGED files
    /\ UNCHANGED held

\* A delete_post that returns without its cascade.
CascadeReleasesOnly(t) ==
    /\ th[t].pc = "dp_cascade"
    /\ locks' = [locks EXCEPT !.post = Free]
    /\ Goto(t, Idle)
    /\ UNCHANGED <<store, now, ret, incs, cascade_due>>
    /\ RecordIssued
    /\ UNCHANGED files
    /\ UNCHANGED held

\* BlogDatabase.delete_post, line 167-168, and _delete_comments_for_post:
\* take comment_lock, remove the post's comments, release both locks.
CascadeDeletePost(t) ==
    /\ th[t].pc = "dp_cascade"
    /\ Acquire(locks.comment)
    /\ comments' = delete_comments_for_post(comments, th[t].post_id)
    /\ locks' = [locks EXCEPT !.post = Free]
    /\ Goto(t, Idle)
    /\ UNCHANGED <<users, user_counter, tags, tag_counter, posts, post_counter,
                   comment_counter, now, ret, incs, cascade_due>>
    /\ RecordIssued
    /\ UNCHANGED files
    /\ UNCHANGED held

\* The post's view count, with the increments callers are in or blocked on,
\* is below MaxViews.
ViewsLeft(post_id) ==
    post_id \in DOMAIN posts =>
       posts[post_id].view_count
          + Cardinality({u \in At({"gp_write"}) : th[u].post_id = post_id})
          + Cardinality({u \in At({"waiting"}) :
                            th[u].call = IncrementCall(post_id)}) < MaxViews

\* BlogPostService.get_post, line 137-138, into increment_view_count, line
\* 188-190: without increment_views go on to the read; with it take post_lock
\* and read the post's view_count, or find no post and release the lock.
CallGetPost(t, post_id, increment_views) ==
    /\ IF increment_views THEN Begins(t, IncrementCall(post_id))
       ELSE th[t].pc = "idle"
    /\ IF ~increment_views
       THEN Goto(t, [pc |-> "gp_read", post_id |-> post_id]) /\ UNCHANGED locks
       ELSE /\ Acquire(locks.post)
            /\ IF post_id \in DOMAIN posts
               THEN /\ th[t].pc = "idle" => ViewsLeft(post_id)
                    /\ locks' = [locks EXCEPT !.post = t]
                    /\ Goto(t, [pc |-> "gp_write", post_id |-> post_id,
                                view_count |-> posts[post_id].view_count])
               ELSE /\ Goto(t, [pc |-> "gp_read", post_id |-> post_id])
                    /\ UNCHANGED locks
    /\ UNCHANGED <<store, now, ret, incs, cascade_due>>
    /\ RecordIssued
    /\ UNCHANGED files
    /\ UNCHANGED held

\* BlogDatabase.increment_view_count, line 190-191: store the count read plus
\* one, release post_lock, return True.
WriteViewCount(t) ==
    /\ th[t].pc = "gp_write"
    /\ posts' = IF th[t].post_id \in DOMAIN posts
                THEN [posts EXCEPT ![th[t].post_id].view_count =
                                       th[t].view_count + 1]
                ELSE posts
    /\ incs' = [incs EXCEPT ![th[t].post_id] = @ + 1]
    /\ locks' = [locks EXCEPT !.post = Free]
    /\ Goto(t, [pc |-> "gp_read", post_id |-> th[t].post_id])
    /\ UNCHANGED <<users, user_counter, tags, tag_counter, post_counter,
                   comments, comment_counter, now, ret, cascade_due>>
    /\ RecordIssued
    /\ UNCHANGED files
    /\ UNCHANGED held

\* BlogPostService.get_post, line 140: BlogDatabase.get_post, lock-free.
ReadPost(t) ==
    /\ th[t].pc = "gp_read"
    /\ Goto(t, Idle)
    /\ UNCHANGED <<store, now, ret, locks, incs, cascade_due>>
    /\ RecordIssued
    /\ UNCHANGED files
    /\ UNCHANGED held

\* An update_post that leaves the tag check out.
CallUpdatePostUnchecked(t, post_id, upd) ==
    /\ th[t].pc = "idle"
    /\ Goto(t, [pc |-> "up_lock", post_id |-> post_id,
                data |-> update_dict(upd)])
    /\ UNCHANGED <<store, now, ret, locks, incs, cascade_due>>
    /\ RecordIssued
    /\ UNCHANGED files
    /\ UNCHANGED held

\* BlogPostService.update_post, line 159-163: the tag check and the filter,
\* lock-free.
CallUpdatePost(t, post_id, upd) ==
    /\ th[t].pc = "idle"
    /\ IF upd.tags # None /\ ~validate_tag_ids(tags, upd.tags[1])
       THEN Goto(t, Idle)
       ELSE Goto(t, [pc |-> "up_lock", post_id |-> post_id,
                     data |-> update_dict(upd)])
    /\ UNCHANGED <<store, now, ret, locks, incs, cascade_due>>
    /\ RecordIssued
    /\ UNCHANGED files
    /\ UNCHANGED held

\* The keys BlogDatabase.update_post writes, in the order the loop meets them.
KeyOrder == <<"title", "content", "published", "tags">>
KeysInOrder(update_data) ==
    LET Written(k) == k \in WrittenKeys(update_data)
    IN SelectSeq(KeyOrder, Written)

\* BlogDatabase.update_post, line 149-153: take post_lock; find the post, or
\* find none and release the lock.  old keeps the record the update found.
LockUpdatePost(t) ==
    /\ th[t].pc = "up_lock"
    /\ Acquire(locks.post)
    /\ IF th[t].post_id \in DOMAIN posts
       THEN /\ locks' = [locks EXCEPT !.post = t]
            /\ Goto(t, [pc |-> "up_write", post_id |-> th[t].post_id,
                        data |-> th[t].data, keys |-> KeysInOrder(th[t].data),
                        old |-> posts[th[t].post_id]])
       ELSE Goto(t, Idle) /\ UNCHANGED locks
    /\ UNCHANGED <<store, now, ret, incs, cascade_due>>
    /\ RecordIssued
    /\ UNCHANGED files
    /\ UNCHANGED held

\* BlogDatabase.update_post, line 154-156: one turn of the loop.
WriteUpdateKey(t) ==
    /\ th[t].pc = "up_write" /\ th[t].keys # <<>>
    /\ posts' = IF th[t].post_id \in DOMAIN posts
                THEN [posts EXCEPT ![th[t].post_id][Head(th[t].keys)] =
                                       th[t].data[Head(th[t].keys)][1]]
                ELSE posts
    /\ Goto(t, [th[t] EXCEPT !.keys = Tail(@)])
    /\ UNCHANGED <<users, user_counter, tags, tag_counter, post_counter,
                   comments, comment_counter, now, ret, locks, incs,
                   cascade_due>>
    /\ RecordIssued
    /\ UNCHANGED files
    /\ UNCHANGED held

\* BlogDatabase.update_post, line 158-159: stamp updated_at, release post_lock.
StampUpdate(t) ==
    /\ th[t].pc = "up_write" /\ th[t].keys = <<>>
    /\ posts' = IF th[t].post_id \in DOMAIN posts
                THEN [posts EXCEPT ![th[t].post_id].updated_at = Some(now)]
                ELSE posts
    /\ locks' = [locks EXCEPT !.post = Free]
    /\ Goto(t, Idle)
    /\ UNCHANGED <<users, user_counter, tags, tag_counter, post_counter,
                   comments, comment_counter, now, ret, incs, cascade_due>>
    /\ RecordIssued
    /\ UNCHANGED files
    /\ UNCHANGED held

\* BlogDatabase.create_tag: take tag_lock, advance the counter, store the tag,
\* release the lock.
CallCreateTag(t, tag_data) ==
    /\ Begins(t, CreateTagCall(tag_data))
    /\ Acquire(locks.tag)
    /\ tag_counter < MaxTags
    /\ tag_counter' = tag_counter + 1
    /\ tags' = Put(tags, tag_counter + 1, NewTag(tag_counter + 1, tag_data))
    /\ UNCHANGED <<users, user_counter, posts, post_counter, comments,
                   comment_counter, now, ret, locks, incs, cascade_due>>
    /\ Goto(t, Idle)
    /\ RecordIssued
    /\ UNCHANGED files
    /\ UNCHANGED held

\* A delete_comment that hands the comment counter back.
CallDeleteCommentReusingId(t, comment_id) ==
    /\ Begins(t, DeleteCommentCall(comment_id))
    /\ Acquire(locks.comment)
    /\ IF comment_id \in DOMAIN comments
       THEN /\ comments' = Del(comments, comment_id)
            /\ comment_counter' = comment_counter - 1
       ELSE UNCHANGED <<comments, comment_counter>>
    /\ UNCHANGED <<users, user_counter, tags, tag_counter, posts, post_counter,
                   now, ret, locks, incs, cascade_due>>
    /\ Goto(t, Idle)
    /\ RecordIssued
    /\ UNCHANGED files
    /\ UNCHANGED held

\* BlogDatabase.delete_comment: take comment_lock, remove the comment if it
\* is stored, release the lock.
CallDeleteComment(t, comment_id) ==
    /\ Begins(t, DeleteCommentCall(comment_id))
    /\ Acquire(locks.comment)
    /\ comments' = IF comment_id \in DOMAIN comments
                   THEN Del(comments, comment_id) ELSE comments
    /\ UNCHANGED <<users, user_counter, tags, tag_counter, posts, post_counter,
                   comment_counter, now, ret, locks, incs, cascade_due>>
    /\ Goto(t, Idle)
    /\ RecordIssued
    /\ UNCHANGED files
    /\ UNCHANGED held

\* Concurrent create_user calls, every username.
NextConcUsers ==
    \/ \E t \in Threads :
          \/ \E d \in UserCreate : CallCreateUser(t, d)
          \/ LockCreateUser(t)
          \/ InsertUser(t)
    \/ Tick

SpecConcUsers == Init /\ [][NextConcUsers]_vars

\* Concurrent create_post, create_comment and delete_post calls.
ConcPosts == {r \in PlainPosts : r.author_id = 1 /\ r.tags = <<>>}
ConcComments == {r \in CommentCreate : r.author_id \in {2, MaxUsers + 1}}

NextConc ==
    \E t \in Threads :
        \/ \E d \in ConcPosts : CallCreatePost(t, d)
        \/ LockCreatePost(t)
        \/ InsertPost(t)
        \/ \E d \in ConcComments : CallCreateComment(t, d)
        \/ CheckCommentAuthor(t)
        \/ LockCreateComment(t)
        \/ InsertComment(t)
        \/ \E p \in PostIds : CallDeletePost(t, p)
        \/ CascadeDeletePost(t)

SpecConc == Init /\ [][NextConc]_vars

\* Concurrent creates of every kind and deletes of posts and comments.
NextIds ==
    \E t \in Threads :
        \/ CallCreateUser(t, [username |-> "bob"])
        \/ LockCreateUser(t)
        \/ InsertUser(t)
        \/ CallCreateTag(t, [name |-> <<"G", "o">>])
        \/ \E d \in ConcPosts : CallCreatePost(t, d)
        \/ LockCreatePost(t)
        \/ InsertPost(t)
        \/ \E d \in ConcComments : CallCreateComment(t, d)
        \/ CheckCommentAuthor(t)
        \/ LockCreateComment(t)
        \/ InsertComment(t)
        \/ \E p \in PostIds : CallDeletePost(t, p)
        \/ CascadeDeletePost(t)
        \/ \E c \in CommentIds : CallDeleteComment(t, c)

SpecIds == Init /\ [][NextIds]_vars

\* Every post and comment operation, run concurrently and scheduled fairly.
LivePostIds == 1..MaxFieldPosts
LiveCommentIds == 1..(MaxComments - 1)
LiveComments ==
    {r \in CommentCreate : r.author_id = 2 /\ r.post_id \in LivePostIds}
LiveUpdate ==
    [title |-> Some("T2"), content |-> None, published |-> None, tags |-> None]

\* A step of caller t: the first step of a call it makes, or the next step
\* of the call it is in.
StepOf(t) ==
    \/ \E d \in ConcPosts : post_counter < MaxFieldPosts /\ CallCreatePost(t, d)
    \/ LockCreatePost(t)
    \/ InsertPost(t)
    \/ \E d \in LiveComments : CallCreateComment(t, d)
    \/ CheckCommentAuthor(t)
    \/ LockCreateComment(t)
    \/ InsertComment(t)
    \/ \E p \in LivePostIds : Wait(t, DeletePostCall(p))
    \/ \E p \in LivePostIds : CallDeletePost(t, p)
    \/ CascadeDeletePost(t)
    \/ \E c \in LiveCommentIds : Wait(t, DeleteCommentCall(c))
    \/ \E c \in LiveCommentIds : CallDeleteComment(t, c)
    \/ \E p \in LivePostIds : ViewsLeft(p) /\ Wait(t, IncrementCall(p))
    \/ \E p \in LivePostIds : CallGetPost(t, p, TRUE)
    \/ WriteViewCount(t)
    \/ ReadPost(t)
    \/ \E p \in LivePostIds : CallUpdatePost(t, p, LiveUpdate)
    \/ LockUpdatePost(t)
    \/ WriteUpdateKey(t)
    \/ StampUpdate(t)

\* The next step of the call caller t is in.
Continue(t) == th[t].pc # "idle" /\ StepOf(t)

NextLive == \E t \in Threads : StepOf(t)

\* A caller in a call is scheduled again and again, and one blocked on a lock
\* that is released again and again gets it in the end.
SpecLive ==
    Init /\ [][NextLive]_vars /\ \A t \in Threads : SF_vars(Continue(t))

\* BlogDatabase.get_all_posts, line 173: the comprehension makes an iterator
\* over self.posts.values(), which remembers the size of the dict; no lock.
CallGetAllPosts(t) ==
    /\ th[t].pc = "idle"
    /\ Goto(t, [pc |-> "scan", size |-> Cardinality(DOMAIN posts), seen |-> 0])
    /\ UNCHANGED <<store, now, ret, locks, incs, cascade_due, held>>
    /\ RecordIssued
    /\ UNCHANGED files

\* BlogDatabase.get_all_posts, line 173-176: one turn of the comprehension.
\* The iterator raises RuntimeError when the dict no longer has the size it
\* remembers; otherwise it hands out the next post, or ends and the list is
\* filtered, sorted and returned.
ScanStep(t) ==
    /\ th[t].pc = "scan"
    /\ IF Cardinality(DOMAIN posts) # th[t].size
       THEN /\ ret' = Ret("get_all_posts", "RuntimeError: dictionary changed size")
            /\ Goto(t, Idle)
       ELSE IF th[t].seen = th[t].size
       THEN ret' = Ret("get_all_posts", "ok") /\ Goto(t, Idle)
       ELSE /\ Goto(t, [th[t] EXCEPT !.seen = @ + 1])
            /\ UNCHANGED ret
    /\ UNCHANGED <<store, now, locks, incs, cascade_due, held>>
    /\ RecordIssued
    /\ UNCHANGED files

\* get_all_posts while posts are created and deleted concurrently.
NextScan ==
    \E t \in Threads :
        \/ \E d \in ConcPosts : CallCreatePost(t, d)
        \/ LockCreatePost(t)
        \/ InsertPost(t)
        \/ \E p \in PostIds : CallDeletePost(t, p)
        \/ CascadeDeletePost(t)
        \/ CallGetAllPosts(t)
        \/ ScanStep(t)

SpecScan == Init /\ [][NextScan]_vars

\* Concurrent creates and updates whose author ids and tag ids are stored,
\* are stored only once another caller's create_user or create_tag has
\* stored them, or are never stored.
NextRefs ==
    \E t \in Threads :
        \/ CallCreateUser(t, [username |-> "bob"])
        \/ LockCreateUser(t)
        \/ InsertUser(t)
        \/ CallCreateTag(t, [name |-> <<"G", "o">>])
        \/ \E d \in {r \in CreatePosts :
                        /\ r.author_id \in {3, MaxUsers + 1}
                        /\ r.published = None
                        /\ r.tags \in {<<1, 4>>, <<MaxTags + 1, 1>>}} :
              post_counter < MaxFieldPosts /\ CallCreatePost(t, d)
        \/ LockCreatePost(t)
        \/ InsertPost(t)
        \/ \E p \in FieldPostIds :
              \E u \in {v \in BlogPostUpdate :
                          /\ v.title = None /\ v.content = None
                          /\ v.published = None
                          /\ v.tags \in {Some(<<2, 1>>), Some(<<1, 4>>),
                                         Some(<<MaxTags + 1, 1>>)}} :
                 CallUpdatePost(t, p, u)
        \/ LockUpdatePost(t)
        \/ WriteUpdateKey(t)
        \/ StampUpdate(t)
        \/ \E d \in {r \in CommentCreate :
                        /\ r.author_id \in {3, MaxUsers + 1}
                        /\ r.post_id \in FieldPostIds} :
              comment_counter < MaxComments - 1 /\ CallCreateComment(t, d)
        \/ CheckCommentAuthor(t)
        \/ LockCreateComment(t)
        \/ InsertComment(t)

SpecRefs == Init /\ [][NextRefs]_vars

\* BlogDatabase.get_post / get_comment, the condition of the conditional
\* expression: `id in self.posts` (`in self.comments`), lock-free.  When
\* the id is absent the call returns None.
CallDbGet(t, kind, id) ==
    /\ th[t].pc = "idle"
    /\ IF id \in DOMAIN (IF kind = "post" THEN posts ELSE comments)
       THEN Goto(t, [pc |-> "dg_lookup", kind |-> kind, id |-> id])
            /\ UNCHANGED ret
       ELSE /\ Goto(t, Idle)
            /\ ret' = [op |-> "db.get", kind |-> kind, id |-> id,
                       status |-> "None"]
    /\ UNCHANGED <<store, now, locks, incs, cascade_due, held>>
    /\ RecordIssued
    /\ UNCHANGED files

\* BlogDatabase.get_post / get_comment, the value of the conditional
\* expression: `self.posts.get(id, {}).copy()`, lock-free: a copy of the
\* record, or of the empty default when the id is no longer a key.
LookupDbGet(t) ==
    /\ th[t].pc = "dg_lookup"
    /\ LET coll == IF th[t].kind = "post" THEN posts ELSE comments
       IN ret' = [op |-> "db.get", kind |-> th[t].kind, id |-> th[t].id,
                  status |-> "mapping",
                  value |-> IF th[t].id \in DOMAIN coll THEN coll[th[t].id]
                            ELSE [k \in {} |-> None]]
    /\ Goto(t, Idle)
    /\ UNCHANGED <<store, now, locks, incs, cascade_due, held>>
    /\ RecordIssued
    /\ UNCHANGED files

\* Store reads of posts and comments while posts and comments are created
\* and deleted concurrently.
NextGet ==
    \E t \in Threads :
        \/ \E d \in ConcPosts : post_counter < MaxFieldPosts /\ CallCreatePost(t, d)
        \/ LockCreatePost(t)
        \/ InsertPost(t)
        \/ \E d \in LiveComments : CallCreateComment(t, d)
        \/ CheckCommentAuthor(t)
        \/ LockCreateComment(t)
        \/ InsertComment(t)
        \/ \E p \in FieldPostIds : CallDeletePost(t, p)
        \/ CascadeDeletePost(t)
        \/ \E c \in CommentIds : CallDeleteComment(t, c)
        \/ \E p \in FieldPostIds : CallDbGet(t, "post", p)
        \/ \E c \in CommentIds : CallDbGet(t, "comment", c)
        \/ LookupDbGet(t)

SpecGet == Init /\ [][NextGet]_vars

\* Concurrent get_post and update_post calls on the posts created meanwhile.
\* The updates give a title and published, or a tag list naming a tag that
\* is not stored, or nothing.
ViewUpdates ==
    {u \in BlogPostUpdate :
        \/ u = [title |-> None, content |-> None, published |-> None,
                tags |-> None]
        \/ u = [title |-> Some("T2"), content |-> None,
                published |-> Some(TRUE), tags |-> None]
        \/ u = [title |-> None, content |-> None, published |-> None,
                tags |-> Some(<<MaxTags + 1, 1>>)]}

NextViews ==
    \E t \in Threads :
        \/ \E d \in ConcPosts : post_counter < MaxFieldPosts /\ CallCreatePost(t, d)
        \/ LockCreatePost(t)
        \/ InsertPost(t)
        \/ \E p \in FieldPostIds, inc \in BOOLEAN : CallGetPost(t, p, inc)
        \/ WriteViewCount(t)
        \/ ReadPost(t)
        \/ \E p \in FieldPostIds, u \in ViewUpdates : CallUpdatePost(t, p, u)
        \/ LockUpdatePost(t)
        \/ WriteUpdateKey(t)
        \/ StampUpdate(t)

SpecViews == Init /\ [][NextViews]_vars

\* ------------------------------------------- claims: one caller at a time

\* Whether a stored user has this username, and whether every id of a tag
\* list is stored.
UsernameStored(username) == \E i \in DOMAIN users : users[i].username = username
AllTagsStored(tag_ids) == \A i \in 1..Len(tag_ids) : tag_ids[i] \in DOMAIN tags

\* C1: create_user with the username of a stored user (compared case-
\* sensitively) raises the conflict error and leaves the users and the user
\* counter as they were; with any other username it returns a new user that is
\* active and that get_user_by_username finds afterwards.
C1_CreateUserContract ==
    [][\A d \in UserCreate : CreateUser(d) =>
          IF UsernameStored(d.username)
          THEN /\ ret' = Ret("create_user", "ValueError: username exists")
               /\ users' = users /\ user_counter' = user_counter
          ELSE /\ ret' = Ret("create_user", "ok")
               /\ user_counter' \in (DOMAIN users') \ (DOMAIN users)
               /\ users'[user_counter'].username = d.username
               /\ users'[user_counter'].is_active = TRUE
               /\ get_user_by_username(users', d.username)
                     = Some(users'[user_counter'])]_vars

\* C1, reached: "Admin" was created beside the sample user "admin", and a
\* later create_user raised the conflict error.
C1_Witness ==
    /\ ret = Ret("create_user", "ValueError: username exists")
    /\ \E i \in DOMAIN users : i > 2 /\ users[i].username = "Admin"

\* The post create_post stores for a request.
StoredAsRequested(post, d) ==
    /\ post.view_count = 0 /\ post.updated_at = None
    /\ post.published = (IF d.published = None THEN FALSE ELSE d.published[1])
    /\ post.author_id = d.author_id /\ post.tags = d.tags

\* C3: create_post succeeds exactly when its author id is a stored user's and
\* every tag id it supplies is a stored tag's; when it fails it raises a
\* validation error, stores no post and leaves the post counter; when it
\* succeeds the stored post has view_count 0, updated_at None and published
\* as supplied (False when left out).
C3_CreatePostContract ==
    [][\A d \in CreatePosts : CreatePost(d) =>
          IF d.author_id \in DOMAIN users /\ AllTagsStored(d.tags)
          THEN /\ ret' = Ret("create_post", "ok")
               /\ post_counter' = post_counter + 1
               /\ DOMAIN posts' = (DOMAIN posts) \cup {post_counter'}
               /\ post_counter' \notin DOMAIN posts
               /\ StoredAsRequested(posts'[post_counter'], d)
          ELSE /\ ret'.op = "create_post"
               /\ ret'.status \in {"ValueError: author does not exist",
                                   "ValueError: tag ids invalid"}
               /\ posts' = posts /\ post_counter' = post_counter]_vars

\* C3, reached: a published post of the user created after the samples with
\* the tag created after the samples is stored, and a later create_post was
\* refused for its tag ids.
C3_Witness ==
    /\ ret = Ret("create_post", "ValueError: tag ids invalid")
    /\ \E p \in DOMAIN posts :
          posts[p].author_id = 3 /\ posts[p].tags = <<1, 4>> /\ posts[p].published

\* C4: create_comment raises the error naming the post when the post is not
\* stored, whatever the author; otherwise the error naming the author when
\* the user is not stored; in both cases the comments and the comment counter
\* stay; otherwise it stores a comment with the given post_id, author_id and
\* content.
C4_CreateCommentContract ==
    [][\A d \in PlainComments : CreateComment(d) =>
          IF d.post_id \notin DOMAIN posts
          THEN /\ ret' = Ret("create_comment", "ValueError: post does not exist")
               /\ comments' = comments /\ comment_counter' = comment_counter
          ELSE IF d.author_id \notin DOMAIN users
          THEN /\ ret' = Ret("create_comment", "ValueError: author does not exist")
               /\ comments' = comments /\ comment_counter' = comment_counter
          ELSE /\ ret' = Ret("create_comment", "ok")
               /\ comment_counter' = comment_counter + 1
               /\ DOMAIN comments' = (DOMAIN comments) \cup {comment_counter'}
               /\ \A c \in DOMAIN comments : comments'[c] = comments[c]
               /\ comments'[comment_counter'].post_id = d.post_id
               /\ comments'[comment_counter'].author_id = d.author_id
               /\ comments'[comment_counter'].content = d.content]_vars

\* C4, reached: a comment is stored and a later create_comment was refused
\* for its author on a stored post.
C4_Witness ==
    /\ ret = Ret("create_comment", "ValueError: author does not exist")
    /\ posts # <<>> /\ comments # <<>>

\* C6: after delete_post(p) returns True, p is not stored, no stored comment
\* has post_id p, and every comment on another post, every other post, every
\* user and every tag is as before.
C6_DeletePostCascade ==
    [][\A p \in PostIds : DeletePost(p) /\ ret' = Ret("delete_post", "True") =>
          /\ db_get(posts', p) = None
          /\ \A c \in DOMAIN comments' : comments'[c].post_id # p
          /\ DOMAIN comments' =
                {c \in DOMAIN comments : comments[c].post_id # p}
          /\ \A c \in DOMAIN comments' : comments'[c] = comments[c]
          /\ DOMAIN posts' = (DOMAIN posts) \ {p}
          /\ \A q \in DOMAIN posts' : posts'[q] = posts[q]
          /\ users' = users /\ tags' = tags]_vars

\* C6, reached: post 1 was deleted with its comment (comment 1 is gone too)
\* while post 2 and its comment 2 are still stored.
C6_Witness ==
    /\ ret = Ret("delete_post", "True")
    /\ DOMAIN posts = {2} /\ DOMAIN comments = {2}
    /\ comments[2].post_id = 2

\* What update_post leaves in post p for the update u: the fields given with
\* a value are overwritten, the others kept, updated_at stamped.
FieldsAsGiven(p, u) ==
    /\ p \in DOMAIN posts'
    /\ DOMAIN posts'[p] = DOMAIN posts[p]
    /\ posts'[p].title = (IF u.title = None THEN posts[p].title ELSE u.title[1])
    /\ posts'[p].content =
          (IF u.content = None THEN posts[p].content ELSE u.content[1])
    /\ posts'[p].published =
          (IF u.published = None THEN posts[p].published ELSE u.published[1])
    /\ posts'[p].tags = (IF u.tags = None THEN posts[p].tags ELSE u.tags[1])
    /\ posts'[p].id = posts[p].id
    /\ posts'[p].author_id = posts[p].author_id
    /\ posts'[p].created_at = posts[p].created_at
    /\ posts'[p].view_count = posts[p].view_count
    /\ posts'[p].updated_at # None
    /\ posts'[p].updated_at[1] >= posts'[p].created_at

C9_ViewCountNeverDecreases ==
    [][\A p \in DOMAIN posts' :
          IF p \in DOMAIN posts
          THEN posts'[p].view_count >= posts[p].view_count
          ELSE posts'[p].view_count = 0]_vars

\* ------------------------------------------------ claims: concurrent callers

\* C2: under any interleaving of concurrent create_user calls, no two stored
\* users have the same username.
C2_UniqueUsernames ==
    \A i, j \in DOMAIN users : users[i].username = users[j].username => i = j

\* C5: at the moment create_comment stores a comment, while delete_post calls
\* run concurrently, the post its post_id names and the user its author_id
\* names are both stored.
C5_ReferencesStoredAtInsert ==
    [][\A t \in Threads : InsertComment(t) =>
          /\ th[t].data.post_id \in DOMAIN posts
          /\ th[t].data.author_id \in DOMAIN users]_vars

\* The comments post p had when it was removed that are still stored.
Leftover(p) == cascade_due[p] \cap DOMAIN comments

\* C7 as stated: in no state is a removed post's comment, stored when the
\* post was removed, still stored.
C7_AsStated ==
    \A p \in DOMAIN cascade_due : p \notin DOMAIN posts => Leftover(p) = {}

\* C7, amended: a comment that was stored when its post was removed is still
\* stored only while the delete_post call that removed the post holds
\* post_lock and has not run its cascade yet; once delete_post has returned,
\* none is.
C7_CascadeBeforeReturn ==
    \A p \in DOMAIN cascade_due :
        /\ p \notin DOMAIN posts
        /\ Leftover(p) # {} =>
              \E t \in Threads : /\ th[t].pc = "dp_cascade"
                                  /\ th[t].post_id = p
                                  /\ locks.post = t

\* C7, reached: a delete_post has removed a post and not yet its comment,
\* while another post deleted earlier has lost its comment.
C7_Witness ==
    \E p, q \in DOMAIN cascade_due :
        /\ Leftover(p) # {}
        /\ cascade_due[q] # {} /\ Leftover(q) = {}

\* C8: a stored post's view_count is the number of get_post calls with
\* increment_views that completed their increment on it, whatever the
\* interleaving with other get_post and update_post calls; and no step of a
\* get_post without increment_views, nor the read that ends every get_post,
\* changes a post.
C8_NoLostIncrement ==
    /\ [](\A p \in DOMAIN posts : posts[p].view_count = incs[p])
    /\ [][\A t \in Threads :
            (ReadPost(t) \/ \E p \in FieldPostIds : CallGetPost(t, p, FALSE))
               => posts' = posts]_vars

\* C8, reached: a post was viewed MaxViews times and updated, and both
\* callers are in a further get_post or update_post call on it.
C8_Witness ==
    \E p \in DOMAIN posts :
        /\ posts[p].view_count = MaxViews /\ incs[p] = MaxViews
        /\ posts[p].title = "T2" /\ posts[p].updated_at # None
        /\ \A t \in Threads : th[t].pc \in {"gp_read", "up_lock", "up_write"}
                                /\ th[t].post_id = p

\* ------------------------------------------------------ claims: the Store

\* C11: every stored post's id field is the key it is stored under, whatever
\* mapping update_post was given, an "id" key with another value included.
C11_IdIsKey == \A p \in DOMAIN posts : posts[p].id = p

\* C11, reached: a post created unpublished and untagged is published and
\* stamped, which only the update mapping carrying an "id" key does.
C11_Witness ==
    \E p \in DOMAIN posts :
        /\ posts[p].published /\ posts[p].tags = <<>>
        /\ posts[p].updated_at # None /\ posts[p].id = p

\* ----------------------------------------------- claims: ids not stored

\* The call reported an absent result and changed no collection or counter.
ReportedAbsent == ret'.status \in {"None", "False"} /\ store' = store

\* What C12 says of every operation other than update_post: addressed to an
\* id that is not stored, it reports an absent result and changes nothing.
AbsentIdsElsewhere ==
    /\ \A p \in FieldPostIds : p \notin DOMAIN posts =>
          /\ \A inc \in BOOLEAN : GetPost(p, inc) => ReportedAbsent
          /\ \A b \in BOOLEAN : PublishPost(p, b) => ReportedAbsent
          /\ DeletePost(p) => ReportedAbsent
    /\ \A c \in CommentIds : c \notin DOMAIN comments =>
          ((GetComment(c) \/ DeleteComment(c)) => ReportedAbsent)
    /\ \A u \in UserIds : u \notin DOMAIN users =>
          (GetUser(u) => ReportedAbsent)
    /\ \A g \in TagIds : g \notin DOMAIN tags =>
          (GetTag(g) => ReportedAbsent)

\* C12 as stated: every operation addressed to an id that is not stored,
\* update_post with any update included, reports an absent result, raises
\* nothing and changes no collection or counter.
C12_AsStated ==
    [][/\ AbsentIdsElsewhere
       /\ \A p \in FieldPostIds, u \in LookupUpdates :
             UpdatePost(p, u) /\ p \notin DOMAIN posts => ReportedAbsent]_vars

\* C12, amended: the same, except that update_post addressed to a post that
\* is not stored raises the validation error when its update gives a tag
\* list naming a tag that is not stored; it still changes nothing.
C12_AbsentIds ==
    [][/\ AbsentIdsElsewhere
       /\ \A p \in FieldPostIds, u \in LookupUpdates :
             UpdatePost(p, u) /\ p \notin DOMAIN posts =>
                /\ store' = store
                /\ ret'.status =
                      (IF u.tags = None \/ AllTagsStored(u.tags[1])
                       THEN "None" ELSE "ValueError: tag ids invalid")]_vars

\* C12, reached: a post and a comment were created and deleted again, and
\* an update_post, then addressed to no stored post, raised for its tag list.
C12_Witness ==
    /\ ret = Ret("update_post", "ValueError: tag ids invalid")
    /\ posts = <<>> /\ post_counter > 0
    /\ comments = <<>> /\ comment_counter > 0

\* ------------------------------------------------------- claims: the ids

\* The ids of coll' that coll does not have are greater than every id of
\* `before`.
NewIdsAbove(coll, collAfter, before) ==
    \A i \in (DOMAIN collAfter) \ (DOMAIN coll) : \A j \in before : i > j

\* C13: every step that stores an entity stores it under an id greater than
\* every id an entity of its kind was ever stored under, deleted ones
\* included, and every insert of a user, post or comment adds an entity (none
\* takes the place of a stored one), whatever the interleaving of creates and
\* deletes.
C13_IdsNeverReused ==
    [][/\ NewIdsAbove(users, users', issued.user)
       /\ NewIdsAbove(tags, tags', issued.tag)
       /\ NewIdsAbove(posts, posts', issued.post)
       /\ NewIdsAbove(comments, comments', issued.comment)
       /\ \A t \in Threads :
             /\ InsertUser(t) => (DOMAIN users') \ (DOMAIN users) # {}
             /\ InsertPost(t) => (DOMAIN posts') \ (DOMAIN posts) # {}
             /\ InsertComment(t) =>
                   (DOMAIN comments') \ (DOMAIN comments) # {}]_vars

\* C13, reached: comment 1 and post 1 were deleted, and a post and a comment
\* created since are stored under ids above them.
C13_Witness ==
    /\ 1 \in issued.post /\ 1 \notin DOMAIN posts
    /\ 1 \in issued.comment /\ 1 \notin DOMAIN comments
    /\ posts # <<>> /\ comments # <<>>

\* ------------------------------------------------- claims: lock-free reads

\* The record of the post that update t is writing is neither the record the
\* update found nor the record it leaves.
Torn(t) ==
    /\ posts[th[t].post_id] # th[t].old
    /\ \A time \in 1..MaxTime :
          posts[th[t].post_id] # UpdatedPost(th[t].old, th[t].data, time)

\* C14: the record a get_post reads while an update_post is writing the same
\* post is entirely the record before the update or entirely the record
\* after it.
C14_ReadsNotTorn ==
    [][\A r \in Threads : ReadPost(r) =>
          \A t \in Threads :
             /\ th[t].pc = "up_write"
             /\ th[t].post_id = th[r].post_id
             /\ th[t].post_id \in DOMAIN posts
             => ~Torn(t)]_vars

\* --------------------------------------------- claims: returned records

\* C15: nothing a caller does to a record the Store returned, to the tag
\* list inside it, or to the tag list it passed to create_post or update_post
\* changes what the Store returns for the post afterwards.
C15_ReturnedRecordsIndependent ==
    [][\A p \in PostIds :
          (CallerSetsTitle(p) \/ \E g \in TagIds : CallerAppendsTag(p, g))
             => db_get(posts', p) = db_get(posts, p)]_vars

\* ------------------------------------------------------ claims: the locks

\* Some caller is in a call and no caller in a call can take a step.
Deadlocked ==
    /\ \E t \in Threads : th[t].pc # "idle"
    /\ \A t \in Threads : ~ENABLED Continue(t)

C17_KindsNeverContend ==
    \A t \in Threads :
        th[t].pc = "dp_cascade" => locks.post # t /\ locks.comment = Free

\* ------------------------------------------------ claims: lock-free scans

\* C18: no get_all_posts fails because a concurrent create or delete changed
\* the posts during its scan.
C18_ScansNeverFail ==
    ret # Ret("get_all_posts", "RuntimeError: dictionary changed size")

\* ------------------------------------------------ claims: lists of posts

\* The ids of the records of a list, and whether the list runs from newest
\* to oldest.
IdsOf(records) == {records[i].id : i \in 1..Len(records)}
NewestFirst(records) ==
    \A i, j \in 1..Len(records) :
        i < j => records[i].created_at >= records[j].created_at

\* C19: search_posts(q) returns the stored posts whose title or content,
\* in lower case, contains q in lower case, each once and as stored, from
\* newest to oldest; search_posts("") returns every stored post.
C19_SearchPosts ==
    ret.op = "search_posts" =>
       LET q == lower(ret.query)
           hits == {p \in DOMAIN posts :
                       \/ Contains(q, lower(posts[p].title))
                       \/ Contains(q, lower(posts[p].content))}
       IN /\ IdsOf(ret.value) = hits
          /\ Len(ret.value) = Cardinality(hits)
          /\ \A i \in 1..Len(ret.value) :
                ret.value[i] = posts[ret.value[i].id]
          /\ NewestFirst(ret.value)
          /\ ret.query = <<>> => hits = DOMAIN posts

\* C19, reached: the query "c" found one post by the "C" of its content and
\* left another post out.
C19_Witness ==
    /\ ret.op = "search_posts" /\ ret.query = <<"c">>
    /\ Len(ret.value) = 1
    /\ Cardinality(DOMAIN posts) = 2
    /\ ret.value[1].content = <<"C">>

\* The stored posts get_all_posts(published_only) has to return.
Listed(published_only) ==
    {p \in DOMAIN posts : published_only => posts[p].published}

\* C20 as stated: get_all_posts returns the stored posts (the published
\* ones when published_only), each once, and a post created later never
\* comes after a post created earlier.  Ids are handed out in the order of
\* creation.
C20_AsStated ==
    ret.op = "get_all_posts" =>
       /\ IdsOf(ret.value) = Listed(ret.published_only)
       /\ Len(ret.value) = Cardinality(Listed(ret.published_only))
       /\ \A i, j \in 1..Len(ret.value) :
             i < j => ret.value[i].id > ret.value[j].id

\* C20: get_all_posts returns the stored posts (the published ones when
\* published_only), each once and as stored, with created_at never rising
\* along the list; posts with the same created_at come in the order they
\* were created, the earlier one first.
C20_GetAllPosts ==
    ret.op = "get_all_posts" =>
       /\ IdsOf(ret.value) = Listed(ret.published_only)
       /\ Len(ret.value) = Cardinality(Listed(ret.published_only))
       /\ \A i \in 1..Len(ret.value) :
             ret.value[i] = posts[ret.value[i].id]
       /\ \A i, j \in 1..Len(ret.value) :
             i < j =>
                \/ ret.value[i].created_at > ret.value[j].created_at
                \/ /\ ret.value[i].created_at = ret.value[j].created_at
                   /\ ret.value[i].id < ret.value[j].id

\* C20, reached: get_all_posts(False) returned two posts created at the
\* same clock value, one of them unpublished.
C20_Witness ==
    /\ ret.op = "get_all_posts" /\ ~ret.published_only
    /\ Len(ret.value) = 2
    /\ ret.value[1].created_at = ret.value[2].created_at
    /\ \E i \in 1..2 : ~ret.value[i].published

\* --------------------------------------------- claims: lists of comments

\* The stored comments on post p.
CommentsOn(p) == {c \in DOMAIN comments : comments[c].post_id = p}

MostViewedAsClaimed ==
    ret.op = "get_most_viewed_posts" /\ ret.limit >= 1 =>
       LET n == Cardinality(DOMAIN posts)
       IN /\ Len(ret.value) = IF ret.limit < n THEN ret.limit ELSE n
          /\ Cardinality(IdsOf(ret.value)) = Len(ret.value)
          /\ \A i \in 1..Len(ret.value) :
                /\ ret.value[i].id \in DOMAIN posts
                /\ ret.value[i] = posts[ret.value[i].id]
          /\ \A i, j \in 1..Len(ret.value) :
                i < j => ret.value[i].view_count >= ret.value[j].view_count
          /\ \A p \in (DOMAIN posts) \ IdsOf(ret.value) :
                \A i \in 1..Len(ret.value) :
                   posts[p].view_count <= ret.value[i].view_count

\* C22: every get_most_viewed_posts(limit) with limit >= 1 returns what
\* MostViewedAsClaimed says, and a call that follows a call with the same
\* limit on the same posts returns the same list.
C22_MostViewed ==
    /\ []MostViewedAsClaimed
    /\ [][\A l \in Limits :
             /\ ret.op = "get_most_viewed_posts" /\ ret.limit = l
             /\ GetMostViewedPosts(l)
             => ret'.value = ret.value]_<<posts, ret>>

\* C22, reached: of two posts the older has more views; limit 1 returns it
\* and leaves the newer out.
C22_Witness ==
    /\ ret.op = "get_most_viewed_posts" /\ ret.limit = 1
    /\ DOMAIN posts = {1, 2}
    /\ posts[1].created_at < posts[2].created_at
    /\ posts[1].view_count > posts[2].view_count
    /\ Len(ret.value) = 1 /\ ret.value[1].id = 1

\* C23: with one caller, get_most_commented_posts(limit), limit >= 1,
\* returns at most limit summaries of distinct stored posts, published or
\* not (min(limit, number of posts) of them, none left out having more
\* comments than a returned one), with comment_count never rising along
\* the list, each comment_count being the number of stored comments on the
\* post.
C23_MostCommented ==
    ret.op = "get_most_commented_posts" /\ ret.limit >= 1 =>
       LET n == Cardinality(DOMAIN posts)
       IN /\ Len(ret.value) <= ret.limit
          /\ Len(ret.value) = IF ret.limit < n THEN ret.limit ELSE n
          /\ Cardinality(IdsOf(ret.value)) = Len(ret.value)
          /\ \A i \in 1..Len(ret.value) :
                /\ ret.value[i].id \in DOMAIN posts
                /\ ret.value[i].comment_count
                      = Cardinality(CommentsOn(ret.value[i].id))
                /\ ret.value[i].published = posts[ret.value[i].id].published
          /\ \A i, j \in 1..Len(ret.value) :
                i < j => ret.value[i].comment_count
                            >= ret.value[j].comment_count
          /\ \A p \in (DOMAIN posts) \ IdsOf(ret.value) :
                \A i \in 1..Len(ret.value) :
                   Cardinality(CommentsOn(p)) <= ret.value[i].comment_count

\* C23, reached: of two posts the unpublished one has the comments; limit 1
\* returns its summary and leaves the published post out.
C23_Witness ==
    /\ ret.op = "get_most_commented_posts" /\ ret.limit = 1
    /\ Cardinality(DOMAIN posts) = 2
    /\ Len(ret.value) = 1
    /\ ~ret.value[1].published
    /\ ret.value[1].comment_count = 2
    /\ \E p \in DOMAIN posts : posts[p].published

\* --------------------------------------------------------- claims: slugs

\* The positions of text, in rising order, whose character satisfies Test.
PositionsOfWord(text) ==
    LET Test(i) == IsWord(text[i])
    IN SelectSeq([i \in 1..Len(text) |-> i], Test)
PositionsNotHyphen(text) ==
    LET Test(i) == text[i] # "-"
    IN SelectSeq([i \in 1..Len(text) |-> i], Test)

\* slug is the slug the claim gives name: its characters other than
\* hyphens are the word characters of name, in order and in lower case; one
\* hyphen stands between two of them when whitespace or a hyphen lies
\* between them in name, and nothing otherwise; nothing stands before the
\* first or after the last.
SlugOf(name, slug) ==
    LET wp == PositionsOfWord(name)
        sp == PositionsNotHyphen(slug)
    IN /\ Len(sp) = Len(wp)
       /\ \A k \in 1..Len(wp) : slug[sp[k]] = Lower(name[wp[k]])
       /\ \A k \in 1..(Len(wp) - 1) :
             sp[k + 1] - sp[k] =
                IF \E i \in (wp[k] + 1)..(wp[k + 1] - 1) :
                      IsSpace(name[i]) \/ name[i] = "-"
                THEN 2 ELSE 1
       /\ IF wp = <<>> THEN slug = <<>>
          ELSE sp[1] = 1 /\ sp[Len(sp)] = Len(slug)

\* C24: the slug of every stored tag is the slug the claim gives its name:
\* it does not start or end with a hyphen and holds no whitespace and no
\* two adjacent hyphens; "Web Development" gives "web-development",
\* "JavaScript" gives "javascript" and "C++!!" gives "c".
C24_Slug ==
    /\ \A g \in DOMAIN tags :
          LET s == tags[g].slug
          IN /\ SlugOf(tags[g].name, s)
             /\ s # <<>> => s[1] # "-" /\ s[Len(s)] # "-"
             /\ \A i \in 1..Len(s) : ~IsSpace(s[i])
             /\ \A i \in 1..(Len(s) - 1) : ~(s[i] = "-" /\ s[i + 1] = "-")
    /\ tags[3].name = <<"W", "e", "b", " ", "D", "e", "v", "e", "l", "o", "p", "m",
                       "e", "n", "t">>
    /\ tags[3].slug = <<"w", "e", "b", "-", "d", "e",
                      "v", "e", "l", "o", "p", "m", "e", "n", "t">>
    /\ slugify(<<"J", "a", "v", "a", "S", "c", "r", "i", "p", "t">>) = <<"j", "a", "v", "a", "s", "c", 
          "r", "i", "p", "t">>
    /\ slugify(<<"C", "+", "+", "!", "!">>) = <<"c">>

\* C24, reached: a tag whose name starts with a hyphen and a punctuation
\* mark is stored.
C24_Witness ==
    \E g \in DOMAIN tags :
        tags[g].name = <<"-", "+", "b">> /\ tags[g].slug = <<"b">>

\* ------------------------------------------- claims: publish, unpublish

\* C25: publish_post(p) and unpublish_post(p) on a stored post set
\* published to true and to false, whatever it was, set updated_at to the
\* time of the call, leave every other field of the post and every other
\* post as they were, and return the post; on an absent post they return
\* None and change nothing.
C25_PublishUnpublish ==
    [][\A p \in FieldPostIds, b \in BOOLEAN :
          PublishPost(p, b) =>
             /\ IF p \in DOMAIN posts
                THEN /\ ret' = Ret("update_post", "ok")
                     /\ DOMAIN posts' = DOMAIN posts
                     /\ posts'[p].published = b
                     /\ posts'[p].updated_at = Some(now)
                     /\ \A k \in {"id", "title", "content", "tags",
                                  "author_id", "created_at", "view_count"} :
                           posts'[p][k] = posts[p][k]
                     /\ \A q \in (DOMAIN posts) \ {p} : posts'[q] = posts[q]
                ELSE /\ ret' = Ret("update_post", "None")
                     /\ posts' = posts
             /\ UNCHANGED <<users, user_counter, tags, tag_counter,
                            post_counter, comments, comment_counter>>]_vars

\* C25, reached: a post that was created unpublished, viewed and given a
\* new title is published at a later clock value.
C25_Witness ==
    /\ ret = Ret("update_post", "ok")
    /\ \E p \in DOMAIN posts :
          /\ posts[p].published /\ posts[p].updated_at = Some(MaxTime)
          /\ posts[p].view_count > 0 /\ posts[p].title = "T2"

\* ------------------------------------------------ claims: MiniFileManager

\* C26: after create_file(name, content) reports success the file exists
\* and read_file(name) returns content, whether or not the name existed
\* before; read_file of a name that does not exist reports "File not
\* found" and leaves the files as they are.
C26_CreateThenRead ==
    [][/\ \A f \in FileNames, c \in FileTexts :
             CreateFile(f, c) /\ ret'.status = "Created file" =>
                /\ f \in DOMAIN files'
                /\ read_text(files'[f]) = c
       /\ \A f \in FileNames :
             ReadFile(f) /\ f \notin DOMAIN files =>
                ret'.status = "File not found" /\ files' = files]_vars

\* C27: delete_file(name) on an existing file reports success, the name
\* then does not exist and every other file keeps its content;
\* delete_file(name) on a name that does not exist reports "File not
\* found" and leaves the files as they are.
C27_DeleteFile ==
    [][\A f \in FileNames :
          DeleteFile(f) =>
             IF f \in DOMAIN files
             THEN /\ ret'.status = "Deleted file"
                  /\ f \notin DOMAIN files'
                  /\ DOMAIN files' = (DOMAIN files) \ {f}
                  /\ \A g \in DOMAIN files' : files'[g] = files[g]
             ELSE /\ ret'.status = "File not found"
                  /\ files' = files]_vars

\* C27, reached: one of two files was deleted and the other is still there
\* with its content.
C27_Witness ==
    /\ ret = [op |-> "delete_file", status |-> "Deleted file",
              filename |-> "a.txt"]
    /\ DOMAIN files = {"b.txt"}
    /\ files["b.txt"] = <<"x", "\n">>

\* ---------------------------------------------------- claims: references

\* C28: under any interleaving of orchestration calls, the author of every
\* stored post and of every stored comment is a stored user and every tag
\* id of every stored post is a stored tag.
C28_ReferencesStored ==
    /\ \A p \in DOMAIN posts :
          /\ posts[p].author_id \in DOMAIN users
          /\ \A i \in 1..Len(posts[p].tags) : posts[p].tags[i] \in DOMAIN tags
    /\ \A c \in DOMAIN comments : comments[c].author_id \in DOMAIN users

\* C28, reached: a post and a comment name the user another caller
\* created, and the post's tags were updated to a list naming the tag
\* another caller created.
C28_Witness ==
    /\ \E p \in DOMAIN posts :
          /\ posts[p].author_id = 3 /\ posts[p].tags = <<1, 4>>
          /\ posts[p].updated_at # None
    /\ \E c \in DOMAIN comments : comments[c].author_id = 3

\* ------------------------------------------------- claims: deleted posts

\* C29: a post that delete_post removed is absent ever after, no caller is
\* in the writing part of update_post (publish_post, unpublish_post) or of
\* increment_view_count on it, and a call on it that gets post_lock after
\* the removal takes the not-found branch and leaves the posts as they are.
C29_DeletedStaysAbsent ==
    /\ [](\A p \in DOMAIN cascade_due :
             /\ p \notin DOMAIN posts
             /\ \A t \in Threads :
                   th[t].pc \in {"up_write", "gp_write"} => th[t].post_id # p)
    /\ [][\A t \in Threads, p \in DOMAIN cascade_due :
             /\ LockUpdatePost(t) /\ th[t].post_id = p
                   => th'[t] = Idle /\ posts' = posts
             /\ CallGetPost(t, p, TRUE)
                   => th'[t].pc = "gp_read" /\ posts' = posts]_vars

\* C29, reached: delete_post has removed post 1 and returned, and a caller
\* whose update_post on post 1 began before is about to take post_lock.
C29_Witness ==
    /\ 1 \in DOMAIN cascade_due
    /\ locks.post = Free
    /\ \E t \in Threads : th[t].pc = "up_lock" /\ th[t].post_id = 1
    /\ \E t \in Threads : th[t].pc = "idle"

\* --------------------------------------------------- claims: Store reads

\* C30: get_post(p) and get_comment(c) of the Store return None or a
\* mapping that is the whole record of that id, never an empty or partial
\* mapping, also when the record is deleted between the membership test
\* and the lookup.
C30_ReadsWholeRecordOrNone ==
    ret.op = "db.get" /\ ret.status # "None" =>
       /\ DOMAIN ret.value =
             (IF ret.kind = "post"
              THEN {"id", "title", "content", "author_id", "created_at",
                    "updated_at", "published", "tags", "view_count"}
              ELSE {"id", "post_id", "author_id", "content", "created_at",
                    "updated_at"})
       /\ ret.value.id = ret.id

====
